---- MODULE Spec2Model ----
(***************************************************************************)
(* A model of the DART scraper: the financial preprocessing                *)
(* (app/preprocessing/dart_finance_preprocessing.py), the upserts and the  *)
(* query of the collection store (app/common/db/collections_database.py),  *)
(* the lookup endpoints (app/api/dart_info_routers.py), the industry-code  *)
(* table (app/preprocessing/dart_info_preprocessing.py) and the two        *)
(* scrapers with their tasks (app/scrapers).                               *)
(*                                                                         *)
(* Conventions.                                                            *)
(*  - A Python str that the code slices or parses (an amount, a period     *)
(*    label, a year) is a tuple of one-character strings: "1000" is        *)
(*    <<"1","0","0","0">> and '' is <<>>.                                  *)
(*  - None is the tuple <<"None">> and a pandas NaN cell is <<"NaN">>;     *)
(*    their single element is not a character, so neither equals a str.    *)
(*  - A str that the code only compares (account_nm, account_id, sj_div,   *)
(*    fs_div) is a TLA+ string; the Korean names are transliterated, the   *)
(*    module text being ASCII: "JabonChonggye" is '자본총계', and in a     *)
(*    period label "J" is '제' and "G" is '기'.  An absent keyword         *)
(*    argument (account_nm=None, account_id=None) is the string "None".    *)
(*  - A call's outcome is a record [exc, ret]: exc = "" when the call      *)
(*    returned ret, otherwise the name of the exception that left it.      *)
(***************************************************************************)
EXTENDS Integers, Sequences, FiniteSets, TLC

VARIABLES
    df,          \* _search_values: the slice (a DataFrame, as a tuple of rows)
    dflt_ls,     \* _search_values: the three shared default list objects
    sv,          \* _search_values: the call last made and what it returned
    calc,        \* the derivation / normalizer call last made and its outcome
    table,       \* preprocess: its argument df (a tuple of rows)
    companies,   \* preprocess: what the company directory answers
    pc,          \* preprocess: position of the call
    slice_i,     \* preprocess: index of the next (year, fs) pair of the loops
    locals,      \* preprocess: local variables that outlive one iteration
    results,     \* preprocess: the list `results`
    ret,         \* preprocess: the outcome of the call, once it has ended
    rec,         \* preprocess, lines 250-351: the locals read and the records built
    collectdart,          \* the rows of table collect_dart, in order of their id
    collectdartfinance,   \* the rows of table collect_dart_finance, in order of their id
    http,        \* the lookup request last served and its response
    ksic,        \* DartInfoPreprocessing: the code table read, _ksic_df and the call last made
    scrape,      \* scrape_dart_info: position, the gathered results and the batches upserted
    fin,         \* scrape_dart_finance: position, the session, the tasks created and the outcome
    fetch        \* one gather: its semaphore, one task followed step by step, the others counted

searchVars == <<df, dflt_ls, sv>>
calcVars == <<calc>>
prepVars == <<table, companies, pc, slice_i, locals, results, ret>>
recVars == <<rec>>
dbVars == <<collectdart, collectdartfinance>>
httpVars == <<http>>
scraperVars == <<ksic, scrape, fin, fetch>>
vars == <<searchVars, calcVars, prepVars, recVars, dbVars, httpVars, scraperVars>>

notSearch == <<calcVars, prepVars, recVars, dbVars, httpVars, scraperVars>>
notCalc == <<searchVars, prepVars, recVars, dbVars, httpVars, scraperVars>>
notPrep == <<searchVars, calcVars, recVars, dbVars, httpVars, scraperVars>>
notRec == <<searchVars, calcVars, prepVars, dbVars, httpVars, scraperVars>>
notDb == <<searchVars, calcVars, prepVars, recVars, httpVars, scraperVars>>
notLookup == <<searchVars, calcVars, prepVars, recVars, collectdartfinance, scraperVars>>
notKsic == <<searchVars, calcVars, prepVars, recVars, dbVars, httpVars, scrape, fin, fetch>>
notScrape == <<searchVars, calcVars, prepVars, recVars, collectdartfinance, httpVars, ksic, fin, fetch>>
notFin == <<searchVars, calcVars, prepVars, recVars, dbVars, httpVars, ksic, scrape, fetch>>
notFetch == <<searchVars, calcVars, prepVars, recVars, collectdart, httpVars, ksic, scrape, fin>>

(***************************************************************************)
(* Python values                                                           *)
(***************************************************************************)
None == <<"None">>
NaN == <<"NaN">>
EmptyStr == <<>>

Digits == {"0", "1", "2", "3", "4", "5", "6", "7", "8", "9"}
Whitespace == {" ", "\t", "\n"}

IsStr(v) == v # None /\ v # NaN

Ok(v) == [exc |-> "", ret |-> v]
Raise(e) == [exc |-> e, ret |-> None]

\* `not value`: None and '' are falsy; NaN (a float) and a non-empty str are truthy
Falsy(value) == value = None \/ value = EmptyStr

\* faulty variant: a rescale that keeps one digit too many
DropLast2(s) == SubSeq(s, 1, Len(s) - 2)

\* str[:-3]: the string without its last three characters, '' when it has at most three
DropLast3(s) == SubSeq(s, 1, Len(s) - 3)

(***************************************************************************)
(* _preprocess_values                                                      *)
(***************************************************************************)
\* the try body: `if not value: return ''` then `return value[:-3]`;
\* NaN is truthy and not subscriptable (TypeError)
PreprocessValuesTry(value) ==
    IF Falsy(value) THEN Ok(EmptyStr)
    ELSE IF value = NaN THEN Raise("TypeError")
    ELSE Ok(DropLast3(value))

\* faulty variant: no `except`: the failure of the try body is what the caller gets
PreprocessValuesUnguarded(value) == PreprocessValuesTry(value)

\* `except Exception`: log and return ''
PreprocessValues(value) ==
    LET body == PreprocessValuesTry(value)
    IN  IF body.exc # "" THEN Ok(EmptyStr) ELSE body

(***************************************************************************)
(* int(str) and str(number)                                                *)
(***************************************************************************)
DigitVal(c) ==
    CASE c = "0" -> 0 [] c = "1" -> 1 [] c = "2" -> 2 [] c = "3" -> 3 [] c = "4" -> 4
      [] c = "5" -> 5 [] c = "6" -> 6 [] c = "7" -> 7 [] c = "8" -> 8 [] c = "9" -> 9

DigitChar(d) ==
    CASE d = 0 -> "0" [] d = 1 -> "1" [] d = 2 -> "2" [] d = 3 -> "3" [] d = 4 -> "4"
      [] d = 5 -> "5" [] d = 6 -> "6" [] d = 7 -> "7" [] d = 8 -> "8" [] d = 9 -> "9"

Unsigned(s) == IF s # <<>> /\ s[1] \in {"-", "+"} THEN Tail(s) ELSE s

\* int(s) accepts an optional sign followed by one or more decimal digits (the
\* surrounding whitespace and the digit-separating '_' it also accepts are outside
\* the characters the model draws from)
IsIntLiteral(s) ==
    /\ IsStr(s)
    /\ Unsigned(s) # <<>>
    /\ \A i \in 1..Len(Unsigned(s)) : Unsigned(s)[i] \in Digits

RECURSIVE NatOf(_)
NatOf(s) == IF s = <<>> THEN 0 ELSE 10 * NatOf(SubSeq(s, 1, Len(s) - 1)) + DigitVal(s[Len(s)])

IntOf(s) == IF s[1] = "-" THEN 0 - NatOf(Unsigned(s)) ELSE NatOf(Unsigned(s))

RECURSIVE StrOfNat(_)
StrOfNat(n) == IF n < 10 THEN <<DigitChar(n)>> ELSE Append(StrOfNat(n \div 10), DigitChar(n % 10))

\* str(int)
StrOfInt(n) == IF n < 0 THEN <<"-">> \o StrOfNat(0 - n) ELSE StrOfNat(n)

\* the four decimals of a rounded float as str prints them: trailing zeros dropped, one kept
RECURSIVE StripZeros(_)
StripZeros(s) == IF Len(s) > 1 /\ s[Len(s)] = "0" THEN StripZeros(SubSeq(s, 1, Len(s) - 1)) ELSE s

Pad4(s) == [i \in 1..(4 - Len(s)) |-> "0"] \o s

\* str(round(num / den * 100, 4)) for integers num and den # 0.  The quotient is rounded
\* to the nearest multiple of 0.0001; the sign of a float zero is kept ('-0.0').  A
\* quotient exactly half way between two multiples needs den to be a multiple of 128.
StrOfRatio(num, den) ==
    LET neg == (num < 0) # (den < 0)
        n == IF num < 0 THEN 0 - num ELSE num
        d == IF den < 0 THEN 0 - den ELSE den
        q == (n * 1000000) \div d
        r == (n * 1000000) % d
        up == 2 * r > d \/ (2 * r = d /\ q % 2 = 1)
        m == IF up THEN q + 1 ELSE q
    IN  (IF neg THEN <<"-">> ELSE <<>>) \o StrOfNat(m \div 10000) \o <<".">>
        \o StripZeros(Pad4(StrOfNat(m % 10000)))

(***************************************************************************)
(* The four derivations                                                    *)
(***************************************************************************)
\* the two `assert x != ''` statements, which stand before the `try`
Asserts(a, b) == a # EmptyStr /\ b # EmptyStr

\* faulty variant: the quotient taken the other way round (capital over debt)
GetFinancialDeptRatioInverted(capital_total, dept_total) ==
    IF ~Asserts(capital_total, dept_total) THEN Raise("AssertionError")
    ELSE IF ~IsIntLiteral(dept_total) \/ ~IsIntLiteral(capital_total) THEN Ok(EmptyStr)
    ELSE IF IntOf(dept_total) = 0 THEN Raise("UnboundLocalError")
    ELSE Ok(StrOfRatio(IntOf(capital_total), IntOf(dept_total)))

\* _get_financial_dept_ratio(capital_total, dept_total)
GetFinancialDeptRatio(capital_total, dept_total) ==
    IF ~Asserts(capital_total, dept_total) THEN Raise("AssertionError")
    \* int(...) of a str that is no integer literal: ValueError, `except Exception`
    ELSE IF ~IsIntLiteral(dept_total) \/ ~IsIntLiteral(capital_total) THEN Ok(EmptyStr)
    \* `except ZeroDivisionError:` binds no name, and its handler reads `e`
    ELSE IF IntOf(capital_total) = 0 THEN Raise("UnboundLocalError")
    ELSE Ok(StrOfRatio(IntOf(dept_total), IntOf(capital_total)))

\* faulty variant: no `except Exception`: the ValueError of int(...) reaches the caller
DifferenceUnguarded(a, b) ==
    IF ~Asserts(a, b) THEN Raise("AssertionError")
    ELSE IF ~IsIntLiteral(a) \/ ~IsIntLiteral(b) THEN Raise("ValueError")
    ELSE Ok(StrOfInt(IntOf(a) - IntOf(b)))

\* faulty variant: the size of the difference, its sign lost
DifferenceAbs(a, b) ==
    IF ~Asserts(a, b) THEN Raise("AssertionError")
    ELSE IF ~IsIntLiteral(a) \/ ~IsIntLiteral(b) THEN Ok(EmptyStr)
    ELSE IF IntOf(a) < IntOf(b) THEN Ok(StrOfInt(IntOf(b) - IntOf(a)))
    ELSE Ok(StrOfInt(IntOf(a) - IntOf(b)))

\* str(int(a) - int(b)) between the asserts and `except Exception`
Difference(a, b) ==
    IF ~Asserts(a, b) THEN Raise("AssertionError")
    ELSE IF ~IsIntLiteral(a) \/ ~IsIntLiteral(b) THEN Ok(EmptyStr)
    ELSE Ok(StrOfInt(IntOf(a) - IntOf(b)))

\* _get_net_worth(asset_total, dept_total)
GetNetWorth(asset_total, dept_total) == Difference(asset_total, dept_total)

\* _get_quick_asset(current_asset, inventories_asset)
GetQuickAsset(current_asset, inventories_asset) == Difference(current_asset, inventories_asset)

\* _get_net_working_capital(current_asset, current_liabilities)
GetNetWorkingCapital(current_asset, current_liabilities) ==
    Difference(current_asset, current_liabilities)

(***************************************************************************)
(* _search_values                                                          *)
(***************************************************************************)
\* re.search(r'제\s+\d+\s+기$', label): '제', whitespace, digits, whitespace and
\* '기' at the end of the label ($ also matches before one trailing newline)
PeriodPatternAt(s, i) ==
    /\ s[i] = "J"
    /\ \E j \in (i + 1)..Len(s) :
          /\ \A x \in (i + 1)..j : s[x] \in Whitespace
          /\ \E k \in (j + 1)..Len(s) :
                /\ \A x \in (j + 1)..k : s[x] \in Digits
                /\ \E l \in (k + 1)..(Len(s) - 1) :
                      /\ \A x \in (k + 1)..l : s[x] \in Whitespace
                      /\ s[l + 1] = "G"
                      /\ \/ l + 1 = Len(s)
                         \/ l + 2 = Len(s) /\ s[Len(s)] = "\n"

\* faulty variant: the pattern without its `$`: a label that goes on after the period matches
Cond2Unanchored(row) ==
    /\ IsStr(row.thstrm_nm)
    /\ \E k \in 1..Len(row.thstrm_nm) :
          \E i \in 1..k : PeriodPatternAt(SubSeq(row.thstrm_nm, 1, k), i)

\* df['thstrm_nm'].str.contains(...): NaN for a cell that is no str, which `&` reads as False
Cond2(row) ==
    /\ IsStr(row.thstrm_nm)
    /\ \E i \in 1..Len(row.thstrm_nm) : PeriodPatternAt(row.thstrm_nm, i)

\* `if account_id:` chooses the column compared; a comparison with None is False everywhere
Cond1(row, account_nm, account_id) ==
    IF account_id \notin {"None", ""}
    THEN row.account_id = account_id
    ELSE account_nm # "None" /\ row.account_nm = account_nm

Cond3(row, sj_div) == sj_div # "None" /\ row.sj_div = sj_div

\* df[cond1 & cond2 & cond3], rows in table order
Filtered(frame, account_nm, sj_div, account_id) ==
    SelectSeq(frame, LAMBDA row : Cond1(row, account_nm, account_id) /\ Cond2(row) /\ Cond3(row, sj_div))

\* faulty variant: .values[-1]: the last matching row instead of the first
SearchValuesTryLast(frame, account_nm, sj_div, account_id) ==
    LET rows == Filtered(frame, account_nm, sj_div, account_id)
    IN  IF rows = <<>> THEN Raise("IndexError")
        ELSE Ok(<<rows[Len(rows)].thstrm_amount, rows[Len(rows)].frmtrm_amount,
                  rows[Len(rows)].bfefrmtrm_amount>>)

\* the try body: .values[0] of the three amount columns, IndexError when no row is left
SearchValuesTry(frame, account_nm, sj_div, account_id) ==
    LET rows == Filtered(frame, account_nm, sj_div, account_id)
    IN  IF rows = <<>> THEN Raise("IndexError")
        ELSE Ok(<<rows[1].thstrm_amount, rows[1].frmtrm_amount, rows[1].bfefrmtrm_amount>>)

\* faulty variant: the alternative ids tried before the alternative names
CandidatesIdsFirst(a, dflt) ==
    [i \in 1..Len(a.alt_account_id_ls) |->
        [account_nm |-> "None", sj_div |-> a.sj_div, account_id |-> a.alt_account_id_ls[i],
         alt_account_nm_ls |-> dflt.nm, alt_account_id_ls |-> dflt.id, alt_sj_div_ls |-> dflt.sj]]
    \o
    [i \in 1..Len(a.alt_account_nm_ls) |->
        [account_nm |-> a.alt_account_nm_ls[i], sj_div |-> a.sj_div, account_id |-> "None",
         alt_account_nm_ls |-> dflt.nm, alt_account_id_ls |-> dflt.id, alt_sj_div_ls |-> dflt.sj]]
    \o
    [i \in 1..Len(a.alt_sj_div_ls) |->
        [account_nm |-> a.account_nm, sj_div |-> a.alt_sj_div_ls[i], account_id |-> a.account_id,
         alt_account_nm_ls |-> dflt.nm, alt_account_id_ls |-> dflt.id, alt_sj_div_ls |-> dflt.sj]]

\* the keyword arguments of the recursive calls, in the order the except block makes them;
\* the lists they do not pass are bound to the shared defaults
Candidates(a, dflt) ==
    [i \in 1..Len(a.alt_account_nm_ls) |->
        [account_nm |-> a.alt_account_nm_ls[i], sj_div |-> a.sj_div, account_id |-> "None",
         alt_account_nm_ls |-> dflt.nm, alt_account_id_ls |-> dflt.id, alt_sj_div_ls |-> dflt.sj]]
    \o
    [i \in 1..Len(a.alt_account_id_ls) |->
        [account_nm |-> "None", sj_div |-> a.sj_div, account_id |-> a.alt_account_id_ls[i],
         alt_account_nm_ls |-> dflt.nm, alt_account_id_ls |-> dflt.id, alt_sj_div_ls |-> dflt.sj]]
    \o
    [i \in 1..Len(a.alt_sj_div_ls) |->
        [account_nm |-> a.account_nm, sj_div |-> a.alt_sj_div_ls[i], account_id |-> a.account_id,
         alt_account_nm_ls |-> dflt.nm, alt_account_id_ls |-> dflt.id, alt_sj_div_ls |-> dflt.sj]]

\* the `finally` block: every position goes through _preprocess_values, then `return`
FinallyNormalize(triple) ==
    <<PreprocessValues(triple[1]).ret, PreprocessValues(triple[2]).ret, PreprocessValues(triple[3]).ret>>

\* the except IndexError block and `finally`, given what each recursive call returns (sub)
\* for the candidates (cands); `if thstrm_amount != '': return ...` leaves the loops at
\* the first candidate with a non-empty current amount
Fallback(cands, sub) ==
    LET hits == {i \in 1..Len(cands) : sub[i].ret[1] # EmptyStr}
        last == IF hits = {} THEN Len(cands) ELSE CHOOSE i \in hits : \A h \in hits : i <= h
        depths == {sub[i].depth : i \in 1..last}
    IN  \* no alternative to try: `finally` finds None, None, None
        IF last = 0
        THEN [exc |-> "", ret |-> FinallyNormalize(<<None, None, None>>), consulted |-> <<>>,
              depth |-> 0]
        \* `finally` finds what the last recursive call made returned
        ELSE [exc |-> "", ret |-> FinallyNormalize(sub[last].ret),
              consulted |-> [i \in 1..last |-> [args |-> cands[i], ret |-> sub[i].ret]],
              depth |-> 1 + (CHOOSE d \in depths : \A e \in depths : d >= e)]

\* the try body ended: `finally` normalizes the first row's cells
Found(body) ==
    [exc |-> "", ret |-> FinallyNormalize(body.ret), consulted |-> <<>>, depth |-> 0]

\* _search_values(df, **a).  ret: the triple returned; consulted: the recursive calls made,
\* in order, each with what it returned; depth: the deepest nesting of recursive calls.
RECURSIVE SearchValues(_, _, _)
SearchValues(frame, a, dflt) ==
    IF SearchValuesTry(frame, a.account_nm, a.sj_div, a.account_id).exc = ""
    THEN Found(SearchValuesTry(frame, a.account_nm, a.sj_div, a.account_id))
    ELSE Fallback(Candidates(a, dflt),
                  [i \in 1..Len(Candidates(a, dflt)) |->
                      SearchValues(frame, Candidates(a, dflt)[i], dflt)])

\* faulty variant: a loop that consumes the list it walks (`while ls: x = ls.pop(0)`)
ListAfterSearchPopped(ls) == <<>>

\* what the call leaves of a list object passed to it (or of a shared default): the code
\* only tests and iterates the lists (`if ls:`, `for x in ls:`), it never writes them
ListAfterSearch(ls) == ls

\* what the call leaves of the frame: df[...] builds new frames, df itself is only read
FrameAfterSearch(frame) == frame

(***************************************************************************)
(* Inputs of the _search_values specification                              *)
(***************************************************************************)
MaxRows == 2

Chars(n) ==
    CASE n = 0 -> <<"1", "0", "0", "0", "0", "0", "0">>     \* '1000000'
      [] n = 1 -> <<"5", "0", "0", "0", "0", "0">>          \* '500000'
      [] n = 2 -> <<"1", "2", "3", "4", "5", "6", "7">>     \* '1234567'
      [] n = 3 -> <<"1", "2">>                              \* '12'
      [] n = 4 -> <<"7", "6", "5", "4", "3", "2", "1">>     \* '7654321'
      [] n = 5 -> <<"2", "0", "0", "0", "0", "0", "0">>     \* '2000000'
      [] n = 6 -> <<"1", "2", "3">>                         \* '123'
      [] n = 7 -> <<"9", "0", "0", "0">>                    \* '9000'

LabelOk == <<"J", " ", "1", "0", " ", "G">>                     \* '제 10 기'
LabelQuarter == <<"J", " ", "1", "0", " ", "G", " ", "3", "Q">> \* '제 10 기 3분기'
LabelTight == <<"J", "1", "0", "G">>                            \* '제10기'

Row(nm, id, sj, label, t, f, b) ==
    [account_nm |-> nm, account_id |-> id, sj_div |-> sj, thstrm_nm |-> label,
     thstrm_amount |-> t, frmtrm_amount |-> f, bfefrmtrm_amount |-> b]

\* rows of one slice: the concept looked up, under both divisions; two concepts
\* known under alternative names; two known under alternative ids; period labels that
\* match the pattern, that do not, and one that is absent
RowPool ==
    { Row("MaechulWongaGye", "ifrs-full_CostOfSales", "CIS", LabelOk, Chars(0), Chars(1), None),
      Row("MaechulWongaGye", "ifrs-full_CostOfSales", "CIS", LabelOk, Chars(3), Chars(2), NaN),
      Row("MaechulWongaGye", "ifrs-full_CostOfSales", "CIS", LabelQuarter, Chars(7), Chars(7), Chars(7)),
      Row("MaechulWongaGye", "ifrs-full_CostOfSales", "IS", LabelOk, Chars(4), Chars(5), EmptyStr),
      Row("MaechulWongaGye", "ifrs-full_CostOfSales", "IS", LabelOk, Chars(6), Chars(4), Chars(2)),
      Row("MaechulWonga", "-", "CIS", LabelOk, Chars(5), Chars(0), Chars(4)),
      Row("MaechulWonga", "-", "CIS", LabelOk, None, Chars(2), Chars(4)),
      Row("YeongeopBiyong", "dart_CostOfSalesGross", "CIS", LabelOk, Chars(2), Chars(7), None),
      Row("YeongeopBiyong", "dart_CostOfSalesGross", "CIS", LabelTight, Chars(0), Chars(0), Chars(0)),
      Row("Gita", "dart_OtherCostOfSales", "CIS", LabelOk, EmptyStr, Chars(5), Chars(6)),
      Row("MaechulWonga", "-", "CIS", None, Chars(4), Chars(4), Chars(4)) }

RECURSIVE SeqsUpTo(_, _)
SeqsUpTo(S, n) ==
    IF n = 0 THEN {<<>>}
    ELSE LET shorter == SeqsUpTo(S, n - 1)
         IN  shorter \cup {Append(q, x) : q \in shorter, x \in S}

Frames == SeqsUpTo(RowPool, MaxRows)

\* a keyword argument the caller leaves out is "omitted"
AltNames == {"omitted", <<"MaechulWonga">>, <<"MaechulWonga", "YeongeopBiyong">>}
AltIds == {"omitted", <<"dart_OtherCostOfSales", "dart_CostOfSalesGross">>}
AltDivs == {"omitted", <<"IS">>}
PrimaryKeys == { [account_nm |-> "None", account_id |-> "ifrs-full_CostOfSales"],
                 [account_nm |-> "MaechulWongaGye", account_id |-> "None"] }

\* Python binds an omitted list argument to the function's default object
Bind(passed, default) == IF passed = "omitted" THEN default ELSE passed

BoundArgs(key, nm_ls, id_ls, sj_ls, dflt) ==
    [account_nm |-> key.account_nm, sj_div |-> "CIS", account_id |-> key.account_id,
     alt_account_nm_ls |-> Bind(nm_ls, dflt.nm),
     alt_account_id_ls |-> Bind(id_ls, dflt.id),
     alt_sj_div_ls |-> Bind(sj_ls, dflt.sj)]

(***************************************************************************)
(* Specification of _search_values: a slice, and calls made on it          *)
(***************************************************************************)
IdleSearch == df = <<>> /\ dflt_ls = [nm |-> <<>>, id |-> <<>>, sj |-> <<>>] /\ sv = [n |-> 0]
IdleCalc == calc = [fn |-> "none"]
IdlePrep ==
    /\ table = <<>> /\ companies = "absent" /\ pc = "idle" /\ slice_i = 0
    /\ locals = <<>> /\ results = <<>> /\ ret = [exc |-> "", ret |-> None]

IdleRec == rec = [stage |-> "none"]
IdleDb == collectdart = <<>> /\ collectdartfinance = <<>>
IdleHttp == http = [endpoint |-> "none"]
IdleKsic == ksic = [stage |-> "none"]
IdleScrape == scrape = [stage |-> "none"]
IdleFin == fin = [stage |-> "none"]
IdleFetch == fetch = [stage |-> "none"]
IdleScrapers == IdleKsic /\ IdleScrape /\ IdleFin /\ IdleFetch

InitSearch ==
    /\ df \in Frames
    /\ dflt_ls = [nm |-> <<>>, id |-> <<>>, sj |-> <<>>]      \* the `= []` of the def line
    /\ sv = [n |-> 0]
    /\ IdleCalc /\ IdlePrep /\ IdleRec /\ IdleDb /\ IdleHttp /\ IdleScrapers

\* the lists the caller holds, as the call leaves them
PassedAfter(ls) == IF ls = "omitted" THEN ls ELSE ListAfterSearch(ls)

\* the state a call leaves behind.  given: the keyword arguments as the caller wrote
\* them; passed: the caller's list objects after the call; first: the triple the first
\* call returned
AfterSearch(given, passed, n, first) ==
    LET a == BoundArgs(given.key, passed.nm, passed.id, passed.sj, dflt_ls)
        out == SearchValues(df, a, dflt_ls)
    IN  /\ sv' = [n |-> n, given |-> given, args |-> a, out |-> out,
                  passed |-> [nm |-> PassedAfter(passed.nm), id |-> PassedAfter(passed.id),
                              sj |-> PassedAfter(passed.sj)],
                  first |-> IF n = 1 THEN out.ret ELSE first]
        /\ df' = FrameAfterSearch(df)
        /\ dflt_ls' = [nm |-> ListAfterSearch(dflt_ls.nm), id |-> ListAfterSearch(dflt_ls.id),
                       sj |-> ListAfterSearch(dflt_ls.sj)]

\* a first call with some arguments
CallSearchValues ==
    /\ sv.n = 0
    /\ \E key \in PrimaryKeys, nm_ls \in AltNames, id_ls \in AltIds, sj_ls \in AltDivs :
          AfterSearch([key |-> key, nm |-> nm_ls, id |-> id_ls, sj |-> sj_ls],
                      [nm |-> nm_ls, id |-> id_ls, sj |-> sj_ls], 1, <<>>)
    /\ UNCHANGED notSearch

\* the same call made again, with the same list objects, on the frame and the defaults
\* as the first call left them
CallSearchValuesAgain ==
    /\ sv.n = 1
    /\ AfterSearch(sv.given, sv.passed, 2, sv.first)
    /\ UNCHANGED notSearch

NextSearch == CallSearchValues \/ CallSearchValuesAgain

SpecSearch == InitSearch /\ [][NextSearch]_vars

(***************************************************************************)
(* Specification of the normalizer and the derivations: Init draws the     *)
(* arguments, each action applies one function to them                     *)
(***************************************************************************)
MaxLen == 4
MaxDigits == 2

RECURSIVE StrsUpTo(_, _)
StrsUpTo(alphabet, n) ==
    IF n = 0 THEN {<<>>}
    ELSE LET shorter == StrsUpTo(alphabet, n - 1)
         IN  shorter \cup {Append(q, c) : q \in shorter, c \in alphabet}

\* arguments of _preprocess_values
NormValues == StrsUpTo({"1", "0", "a"}, MaxLen) \cup {None, NaN, Chars(0), Chars(1)}

\* arguments of the derivations: short strings, integer literals or not, and the
\* amounts of the documented examples ('1000', '500', '900', '300')
CalcValues ==
    StrsUpTo({"0", "1", "5", "-", "a"}, MaxDigits)
    \cup {None, DropLast3(Chars(0)), DropLast3(Chars(1)), <<"9", "0", "0">>, <<"3", "0", "0">>}

Derivations == {"_get_financial_dept_ratio", "_get_net_worth", "_get_quick_asset",
                "_get_net_working_capital"}

InitCalc ==
    /\ \/ \E x \in NormValues : calc = [fn |-> "none", a |-> x, b |-> None]
       \/ \E x \in CalcValues, y \in CalcValues : calc = [fn |-> "none", a |-> x, b |-> y]
    /\ IdleSearch /\ IdlePrep /\ IdleRec /\ IdleDb /\ IdleHttp /\ IdleScrapers

Applied(fn, out) == [calc EXCEPT !.fn = fn] @@ [out |-> out]

CallPreprocessValues ==
    /\ calc.fn = "none"
    /\ calc' = Applied("_preprocess_values", PreprocessValues(calc.a))
    /\ UNCHANGED notCalc

CallGetFinancialDeptRatio ==
    /\ calc.fn = "none"
    /\ calc' = Applied("_get_financial_dept_ratio", GetFinancialDeptRatio(calc.a, calc.b))
    /\ UNCHANGED notCalc

CallGetNetWorth ==
    /\ calc.fn = "none"
    /\ calc' = Applied("_get_net_worth", GetNetWorth(calc.a, calc.b))
    /\ UNCHANGED notCalc

CallGetQuickAsset ==
    /\ calc.fn = "none"
    /\ calc' = Applied("_get_quick_asset", GetQuickAsset(calc.a, calc.b))
    /\ UNCHANGED notCalc

CallGetNetWorkingCapital ==
    /\ calc.fn = "none"
    /\ calc' = Applied("_get_net_working_capital", GetNetWorkingCapital(calc.a, calc.b))
    /\ UNCHANGED notCalc

NextCalc ==
    \/ CallPreprocessValues
    \/ CallGetFinancialDeptRatio
    \/ CallGetNetWorth
    \/ CallGetQuickAsset
    \/ CallGetNetWorkingCapital

SpecCalc == InitCalc /\ [][NextCalc]_vars

(***************************************************************************)
(* preprocess                                                              *)
(***************************************************************************)
\* companies_db.query_companies(company_id) as _get_ids uses it: the directory answers a
\* dict of the three ids, answers None (data.get then fails), or raises
QueryCompanies(answer) ==
    CASE answer = "found" ->
            Ok([biz_num |-> "1234567890", corporation_num |-> "1101110000001",
                illu_id |-> "illu-1"])
      [] answer = "absent" -> Ok(None)
      [] answer = "raises" -> Raise("SQLAlchemyError")

\* faulty variant: an answer of None read as a company without ids (`data = ... or {}`)
GetIdsLenient(answer) ==
    LET data == QueryCompanies(answer)
    IN  IF data.exc # "" THEN data
        ELSE IF answer = "absent"
        THEN Ok([biz_num |-> None, corporation_num |-> None, illu_id |-> None])
        ELSE Ok(data.ret)

\* _get_ids(company_id): data.get(...) of the answer, AttributeError when it is None
GetIds(answer) ==
    LET data == QueryCompanies(answer)
    IN  IF data.exc # "" THEN data
        ELSE IF answer = "absent" THEN Raise("AttributeError")
        ELSE Ok(data.ret)

\* Series.unique().tolist(): the values of a column in order of first appearance
RECURSIVE Unique(_)
Unique(col) ==
    IF col = <<>> THEN <<>>
    ELSE LET front == Unique(SubSeq(col, 1, Len(col) - 1))
             x == col[Len(col)]
         IN  IF \E i \in 1..Len(front) : front[i] = x THEN front ELSE Append(front, x)

Years(tbl) == Unique([i \in 1..Len(tbl) |-> tbl[i].bsns_year])
FsDivs(tbl) == Unique([i \in 1..Len(tbl) |-> tbl[i].fs_div])

\* the (year, fs) of the i-th pass of `for year in years: for fs in fs_divs:`
PairAt(tbl, i) ==
    [year |-> Years(tbl)[((i - 1) \div Len(FsDivs(tbl))) + 1],
     fs |-> FsDivs(tbl)[((i - 1) % Len(FsDivs(tbl))) + 1]]

NumPairs(tbl) == Len(Years(tbl)) * Len(FsDivs(tbl))

\* the fields NewCompanyFinancePydantic declares; a keyword that is none of them
\* (net_worth, quick_asset, net_working_capital) is ignored by the model class
PydanticFields ==
    {"company_id", "biz_num", "corporation_num", "illu_id", "acct_dt",
     "financial_decide_code", "financial_decide_desc", "sales", "sales_cost",
     "operating_profit", "net_profit", "capital_amount", "capital_total", "debt_total",
     "asset_total", "comprehensive_income", "financial_debt_ratio", "tangible_asset",
     "non_tangible_asset", "current_asset", "non_current_asset", "current_liabilities",
     "inventories_asset", "accounts_payable", "trade_receivable", "short_term_loan",
     "selling_general_administrative_expenses"}

NewCompanyFinancePydantic(kwargs) == [f \in PydanticFields |-> kwargs[f]]

\* self._get_...(a, b) by the name of the method
Derive(fn, a, b) ==
    CASE fn = "_get_financial_dept_ratio" -> GetFinancialDeptRatio(a, b)
      [] fn = "_get_net_worth" -> GetNetWorth(a, b)
      [] fn = "_get_quick_asset" -> GetQuickAsset(a, b)
      [] fn = "_get_net_working_capital" -> GetNetWorkingCapital(a, b)

\* one derivation applied to the three members of two resolved triples, left to right:
\* the first failure ends the statement
Each3(fn, x, y) ==
    LET o == [k \in 1..3 |-> Derive(fn, x[k], y[k])]
    IN  IF o[1].exc # "" THEN Raise(o[1].exc)
        ELSE IF o[2].exc # "" THEN Raise(o[2].exc)
        ELSE IF o[3].exc # "" THEN Raise(o[3].exc)
        ELSE Ok(<<o[1].ret, o[2].ret, o[3].ret>>)

\* the keyword arguments of one of the three records of a pass (k = 1, 2, 3 for the
\* current, the prior and the two-periods-prior record)
RecordKwargs(k, company_id, ids, acct_dt, code, desc, m) ==
    [company_id |-> company_id, biz_num |-> ids.biz_num,
     corporation_num |-> ids.corporation_num, illu_id |-> ids.illu_id,
     acct_dt |-> acct_dt[k], financial_decide_code |-> code, financial_decide_desc |-> desc,
     sales |-> m.sales[k], sales_cost |-> m.sales_cost[k],
     operating_profit |-> m.operating_profit[k], net_profit |-> m.net_profit[k],
     capital_amount |-> m.capital_amount[k], capital_total |-> m.capital_total[k],
     debt_total |-> m.dept_total[k], asset_total |-> m.assets_total[k],
     comprehensive_income |-> m.comprehensive_income[k],
     financial_debt_ratio |-> m.financial_debt_ratio[k],
     tangible_asset |-> m.tangible_asset[k], non_tangible_asset |-> m.none_tangible_asset[k],
     current_asset |-> m.current_asset[k], non_current_asset |-> m.none_current_asset[k],
     current_liabilities |-> m.current_liabilities[k], net_worth |-> m.net_worth[k],
     quick_asset |-> m.quick_asset[k], inventories_asset |-> m.inventories_asset[k],
     accounts_payable |-> m.accounts_payable[k], trade_receivable |-> m.trade_receivable[k],
     short_term_loan |-> m.short_term_loan[k],
     net_working_capital |-> m.networking_capital[k],
     selling_general_administrative_expenses |->
         m.selling_general_administrative_expenses[k]]

\* a local variable that no statement has assigned yet
Unbound == <<"unbound">>

\* keyword arguments of a _search_values call that passes no list
Args(nm, sj, id, dflt) ==
    [account_nm |-> nm, sj_div |-> sj, account_id |-> id,
     alt_account_nm_ls |-> dflt.nm, alt_account_id_ls |-> dflt.id, alt_sj_div_ls |-> dflt.sj]

\* the keyword arguments of the _search_values calls of lines 226-248, by the local
\* each call assigns (thstrm_<name>, frmtrm_<name>, bfefrmtrm_<name>)
MetricArgs(dflt) ==
    [sales |-> Args("None", "CIS", "ifrs-full_Revenue", dflt),
     sales_cost |-> [Args("None", "CIS", "ifrs-full_CostOfSales", dflt)
                        EXCEPT !.alt_account_nm_ls = <<"MaechulWonga">>],
     operating_profit |-> [Args("None", "CIS", "dart_OperatingIncomeLoss", dflt)
                              EXCEPT !.alt_sj_div_ls = <<"IS">>],
     net_profit |-> Args("None", "CIS", "ifrs-full_ProfitLoss", dflt),
     capital_amount |-> Args("Jabongeum", "BS", "None", dflt),
     capital_total |-> Args("JabonChonggye", "BS", "None", dflt),
     dept_total |-> Args("BuchaeChonggye", "BS", "None", dflt),
     assets_total |-> Args("JasanChonggye", "BS", "None", dflt),
     comprehensive_income |-> Args("None", "CIS", "ifrs-full_ComprehensiveIncome", dflt),
     tangible_asset |-> Args("YuhyeongJasan", "BS", "None", dflt),
     none_tangible_asset |->
         [Args("None", "BS", "ifrs-full_IntangibleAssetsOtherThanGoodwill", dflt)
             EXCEPT !.alt_account_id_ls =
                        <<"dart_OtherIntangibleAssetsGross", "dart_GoodwillGross">>],
     current_asset |-> Args("YudongJasan", "BS", "None", dflt),
     none_current_asset |-> Args("BiyudongJasan", "BS", "None", dflt),
     current_liabilities |-> Args("YudongBuchae", "BS", "None", dflt),
     inventories_asset |-> Args("JaegoJasan", "BS", "None", dflt),
     accounts_payable |->
         [Args("None", "BS", "ifrs-full_TradeAndOtherCurrentPayables", dflt)
             EXCEPT !.alt_account_id_ls = <<"dart_ShortTermTradePayables">>],
     trade_receivable |->
         [Args("None", "BS", "ifrs-full_TradeAndOtherCurrentReceivables", dflt)
             EXCEPT !.alt_account_id_ls = <<"dart_ShortTermTradeReceivable">>],
     short_term_loan |-> [Args("None", "BS", "ifrs-full_ShorttermBorrowings", dflt)
                             EXCEPT !.alt_account_nm_ls = <<"DangiChaipgeum">>],
     selling_general_administrative_expenses |->
         [Args("None", "CIS", "dart_TotalSellingGeneralAdministrativeExpenses", dflt)
             EXCEPT !.alt_sj_div_ls = <<"IS">>]]

\* lines 226-248: what each _search_values call on the slice returns
FoundMetrics(_df, dflt) ==
    [name \in DOMAIN MetricArgs(dflt) |-> SearchValues(_df, MetricArgs(dflt)[name], dflt).ret]

\* line 242 reads the inventories locals, which line 243 assigns: in the first pass of
\* the loops they are not bound yet, in a later pass they hold the earlier pass's amounts
QuickAssets(found, loc) ==
    IF loc.inventories_asset = Unbound THEN Raise("UnboundLocalError")
    ELSE Each3("_get_quick_asset", found.current_asset, loc.inventories_asset)

\* lines 250-351: the three records appended, and the locals the pass leaves
SliceRecords(_df, company_id, ids, year, m) ==
    LET acct_dt == <<year, StrOfInt(IntOf(year) - 1), StrOfInt(IntOf(year) - 2)>>
    IN  [records |->
            [k \in 1..3 |->
                NewCompanyFinancePydantic(
                    RecordKwargs(k, company_id, ids, acct_dt, _df[1].fs_div, _df[1].fs_nm, m))],
         locals |-> [inventories_asset |-> m.inventories_asset]]

\* lines 223-351, statement by statement: the first exception ends the pass
SliceSteps(_df, company_id, ids, year, found, ratio, net_worth, quick_asset, nwc) ==
    \* line 223: _df.fs_div.values[0] of a pair no row has
    IF _df = <<>> THEN Raise("IndexError")
    \* line 225: int(year)
    ELSE IF ~IsIntLiteral(year) THEN Raise("ValueError")
    \* line 234
    ELSE IF ratio.exc # "" THEN Raise(ratio.exc)
    \* line 241
    ELSE IF net_worth.exc # "" THEN Raise(net_worth.exc)
    \* line 242
    ELSE IF quick_asset.exc # "" THEN Raise(quick_asset.exc)
    \* line 247
    ELSE IF nwc.exc # "" THEN Raise(nwc.exc)
    ELSE Ok(SliceRecords(_df, company_id, ids, year,
                         found @@ [financial_debt_ratio |-> ratio.ret,
                                   net_worth |-> net_worth.ret,
                                   quick_asset |-> quick_asset.ret,
                                   networking_capital |-> nwc.ret]))

\* the derivations of lines 234, 241, 242 and 247 on what the searches returned
SliceDerived(_df, company_id, ids, year, loc, found) ==
    SliceSteps(_df, company_id, ids, year, found,
               Each3("_get_financial_dept_ratio", found.capital_total, found.dept_total),
               Each3("_get_net_worth", found.assets_total, found.dept_total),
               QuickAssets(found, loc),
               Each3("_get_net_working_capital", found.current_asset,
                     found.current_liabilities))

\* one pass of the loop body (lines 222-351) on the rows _df of a pair
SliceOf(_df, company_id, ids, year, loc, dflt) ==
    SliceDerived(_df, company_id, ids, year, loc, FoundMetrics(_df, dflt))

\* one pass of the loop body for the pair (year, fs).  loc holds the locals an earlier
\* pass left; ret: the three records appended and the locals left.
SliceBody(tbl, company_id, ids, year, fs, loc, dflt) ==
    SliceOf(SelectSeq(tbl, LAMBDA r : r.bsns_year = year /\ r.fs_div = fs),
            company_id, ids, year, loc, dflt)

(***************************************************************************)
(* Specification of preprocess: Init draws the table and the directory's   *)
(* answer; one action for the lines before the loops, one per pass          *)
(***************************************************************************)
MaxYears == 2

\* the line items a table is drawn from: account_nm, account_id, sj_div and the three
\* amounts ('자본총계' 1000000 and '부채총계' 500000 are the documented example)
MetricPool ==
    << <<"JabonChonggye", "ifrs-full_Equity", "BS", 1000000, 800000, 400000>>,
       <<"BuchaeChonggye", "ifrs-full_Liabilities", "BS", 500000, 200000, 100000>>,
       <<"JasanChonggye", "ifrs-full_Assets", "BS", 1500000, 1000000, 500000>>,
       <<"YudongJasan", "ifrs-full_CurrentAssets", "BS", 900000, 700000, 300000>>,
       <<"YudongBuchae", "ifrs-full_CurrentLiabilities", "BS", 300000, 100000, 50000>>,
       <<"JaegoJasan", "ifrs-full_Inventories", "BS", 200000, 150000, 120000>>,
       <<"Maechulaek", "ifrs-full_Revenue", "CIS", 2000000, 1800000, 1600000>> >>

\* the pairs a table is drawn from: the last MaxYears business years, CFS and OFS
PoolPair(i) ==
    [year |-> StrOfInt(2022 - ((i - 1) \div 2)), fs |-> IF i % 2 = 1 THEN "CFS" ELSE "OFS"]

\* the rows of pair i: the first n line items, with or without the amounts of the
\* two earlier periods
SliceRows(i, n, full) ==
    [j \in 1..n |->
        [company_id |-> 1, bsns_year |-> PoolPair(i).year, fs_div |-> PoolPair(i).fs,
         fs_nm |-> IF PoolPair(i).fs = "CFS" THEN "YeongyeolJaemujepyo" ELSE "Jaemujepyo",
         account_nm |-> MetricPool[j][1], account_id |-> MetricPool[j][2],
         sj_div |-> MetricPool[j][3], thstrm_nm |-> LabelOk,
         thstrm_amount |-> StrOfInt(MetricPool[j][4]),
         frmtrm_amount |-> IF full THEN StrOfInt(MetricPool[j][5]) ELSE None,
         bfefrmtrm_amount |-> IF full THEN StrOfInt(MetricPool[j][6]) ELSE None]]

RECURSIVE TableOf(_, _, _, _)
TableOf(S, i, n, full) ==
    IF i > 2 * MaxYears THEN <<>>
    ELSE (IF i \in S THEN SliceRows(i, n, full) ELSE <<>>) \o TableOf(S, i + 1, n, full)

Reversed(q) == [i \in 1..Len(q) |-> q[Len(q) + 1 - i]]

Tables ==
    {<<>>}
    \cup {TableOf(S, 1, n, full) :
            S \in (SUBSET (1..(2 * MaxYears))) \ {{}}, n \in 1..Len(MetricPool), full \in BOOLEAN}
    \cup {Reversed(TableOf(S, 1, n, full)) :
            S \in (SUBSET (1..(2 * MaxYears))) \ {{}}, n \in 1..Len(MetricPool), full \in BOOLEAN}

InitPreprocess ==
    /\ table \in Tables
    /\ companies \in {"found", "absent", "raises"}
    /\ pc = "start"
    /\ slice_i = 0
    /\ locals = <<>>
    /\ results = <<>>
    /\ ret = [exc |-> "", ret |-> None]
    /\ IdleSearch /\ IdleCalc /\ IdleRec /\ IdleDb /\ IdleHttp /\ IdleScrapers

\* lines 213-219: results = [], the company id of row 0, its ids, the years and the fs_divs.
\* An exception is caught at line 356 and the call returns None.
PreprocessStart ==
    /\ pc = "start"
    /\ LET ids == IF table = <<>> THEN Raise("KeyError") ELSE GetIds(companies)
       IN  IF ids.exc # ""
           THEN /\ pc' = "done"
                /\ ret' = Ok(None)
                /\ UNCHANGED <<slice_i, locals, results>>
           ELSE /\ pc' = "loop"
                /\ slice_i' = 1
                /\ locals' = [company_id |-> table[1].company_id, ids |-> ids.ret,
                              inventories_asset |-> Unbound]
                /\ results' = <<>>
                /\ UNCHANGED ret
    /\ UNCHANGED <<table, companies>>
    /\ UNCHANGED notPrep

\* faulty variant: the try inside the loop body, a failing pass skipped and the loops
\* carried on
PreprocessSliceSkipping ==
    /\ pc = "loop"
    /\ LET pair == PairAt(table, slice_i)
           body == SliceBody(table, locals.company_id, locals.ids, pair.year, pair.fs,
                             locals, dflt_ls)
       IN  /\ results' = IF body.exc # "" THEN results ELSE results \o body.ret.records
           /\ locals' = IF body.exc # "" THEN locals
                         ELSE [locals EXCEPT
                                  !.inventories_asset = body.ret.locals.inventories_asset]
           /\ IF slice_i = NumPairs(table)
              THEN pc' = "done" /\ ret' = Ok(results') /\ UNCHANGED slice_i
              ELSE pc' = "loop" /\ slice_i' = slice_i + 1 /\ UNCHANGED ret
    /\ UNCHANGED <<table, companies>>
    /\ UNCHANGED notPrep

\* one pass of the loops (lines 220-351); after the last pass, `return results`.
\* An exception is caught at line 356 and the call returns None.
PreprocessSlice ==
    /\ pc = "loop"
    /\ LET pair == PairAt(table, slice_i)
           body == SliceBody(table, locals.company_id, locals.ids, pair.year, pair.fs,
                             locals, dflt_ls)
       IN  IF body.exc # ""
           THEN /\ pc' = "done"
                /\ ret' = Ok(None)
                /\ UNCHANGED <<slice_i, locals, results>>
           ELSE /\ results' = results \o body.ret.records
                /\ locals' = [locals EXCEPT
                                 !.inventories_asset = body.ret.locals.inventories_asset]
                /\ IF slice_i = NumPairs(table)
                   THEN pc' = "done" /\ ret' = Ok(results') /\ UNCHANGED slice_i
                   ELSE pc' = "loop" /\ slice_i' = slice_i + 1 /\ UNCHANGED ret
    /\ UNCHANGED <<table, companies>>
    /\ UNCHANGED notPrep

NextPreprocess == PreprocessStart \/ PreprocessSlice

SpecPreprocess == InitPreprocess /\ [][NextPreprocess]_vars

(***************************************************************************)
(* Specification of the record construction of preprocess (lines 250-351): *)
(* Init draws the locals the three constructor calls read, the action      *)
(* builds the records                                                      *)
(***************************************************************************)
\* values the locals of a derived metric hold for the three periods
DerivedTriples ==
    { <<<<"6", "0", "0">>, <<"3", "0", "0">>, <<"1", "5", "0">>>>,
      <<<<"-", "5">>, <<"0">>, EmptyStr>>,
      <<EmptyStr, EmptyStr, EmptyStr>> }

\* the rows _df of the pass: a slice with every line item and all three amounts
RecordSlice(i) == SliceRows(i, Len(MetricPool), TRUE)

\* the locals lines 250-351 read: what the searches of lines 226-248 found on the slice,
\* the debt ratio of line 234 and the three other derived triples
RecordLocals(r) ==
    FoundMetrics(RecordSlice(r.pair), [nm |-> <<>>, id |-> <<>>, sj |-> <<>>])
    @@ [financial_debt_ratio |-> r.financial_debt_ratio, net_worth |-> r.net_worth,
        quick_asset |-> r.quick_asset, networking_capital |-> r.networking_capital]

InitRecords ==
    /\ \E i \in 1..(2 * MaxYears), nw \in DerivedTriples, qa \in DerivedTriples,
          nwc \in DerivedTriples :
          rec = [stage |-> "locals", pair |-> i,
                 financial_debt_ratio |-> <<<<"5", "0", ".", "0">>, <<"2", "5", ".", "0">>,
                                            <<"2", "5", ".", "0">>>>,
                 net_worth |-> nw, quick_asset |-> qa, networking_capital |-> nwc]
    /\ IdleSearch /\ IdleCalc /\ IdlePrep /\ IdleDb /\ IdleHttp /\ IdleScrapers

\* lines 250-351: the three NewCompanyFinancePydantic(...) calls and the appends
BuildRecords ==
    /\ rec.stage = "locals"
    /\ rec' = [stage |-> "built", pair |-> rec.pair,
               financial_debt_ratio |-> rec.financial_debt_ratio,
               net_worth |-> rec.net_worth, quick_asset |-> rec.quick_asset,
               networking_capital |-> rec.networking_capital,
               records |-> SliceRecords(RecordSlice(rec.pair), 1, QueryCompanies("found").ret,
                                        PoolPair(rec.pair).year, RecordLocals(rec)).records]
    /\ UNCHANGED notRec

NextRecords == BuildRecords

SpecRecords == InitRecords /\ [][NextRecords]_vars

(***************************************************************************)
(* CollectionsDatabase: the two bulk upserts                               *)
(*                                                                         *)
(* A row is a record of the table's columns, its id being its position.    *)
(* A pydantic record handed to an upsert is [set, val]: val holds every    *)
(* field (None where it was not given), set names the fields given.  NULL  *)
(* in a column of compared-only strings is "None".                         *)
(***************************************************************************)
\* session.query(T).filter(T.k1 == data.k1, ...): the row agrees with the record on
\* every field of the key (== None is rendered IS NULL)
Matches(row, data, key) == \A f \in key : row[f] = data.val[f]

\* for key, value in data.dict(exclude_unset=True).items(): setattr(existing_data, key, value)
Updated(row, data) == [f \in DOMAIN row |-> IF f \in data.set THEN data.val[f] ELSE row[f]]

\* the records of data_list that update a stored row, in the order of the list: those
\* for which .first() answers that row, i.e. the first row that agrees on the key
UpdatesOf(rows, i, data_list, key) ==
    SelectSeq(data_list,
              LAMBDA data : /\ Matches(rows[i], data, key)
                            /\ \A h \in 1..(i - 1) : ~Matches(rows[h], data, key))

\* the setattr loops of the records that meet one row, one record after the other
RECURSIVE UpdatedByAll(_, _)
UpdatedByAll(row, updates) ==
    IF updates = <<>> THEN row ELSE UpdatedByAll(Updated(row, Head(updates)), Tail(updates))

\* the loop over data_list, then bulk_save_objects(to_add): a record that matches a
\* stored row updates the first such row (an update leaves the key fields it matched
\* as they are, so every query of the loop meets the rows by their stored keys); any
\* other record is put aside in to_add, which the queries of the loop do not see, and
\* is inserted after the loop
BulkUpsert(rows, to_add, data_list, key) ==
    [i \in 1..Len(rows) |-> UpdatedByAll(rows[i], UpdatesOf(rows, i, data_list, key))]
    \o to_add
    \o [j \in 1..Len(SelectSeq(data_list,
                               LAMBDA data : \A i \in 1..Len(rows) : ~Matches(rows[i], data, key))) |->
           SelectSeq(data_list,
                     LAMBDA data : \A i \in 1..Len(rows) : ~Matches(rows[i], data, key))[j].val]

\* the filter of bulk_upsert_data_collectdart
CollectdartKey == {"corp_code"}

\* the filter of bulk_upsert_data_collectdartfinance
CollectdartfinanceKey ==
    {"company_id", "corp_code", "bsns_year", "reprt_code", "fs_div", "sj_div", "sj_nm",
     "account_id", "account_nm", "account_detail"}

(***************************************************************************)
(* Specification of the upserts: both tables empty at first, batches drawn *)
(* from a pool of records                                                  *)
(***************************************************************************)
MaxBatch == 2
MaxStoreRows == 3

CompanyRow(corp_code, company_id, bizr_no, jurir_no, corp_name, induty_code, corp_cls) ==
    [corp_code |-> corp_code, company_id |-> company_id, bizr_no |-> bizr_no,
     jurir_no |-> jurir_no, corp_name |-> corp_name, induty_code |-> induty_code,
     corp_cls |-> corp_cls]

CompanyFields == DOMAIN CompanyRow("", None, None, None, "", None, "")

\* three companies; the business number of the second is the corporation number of the
\* first, the business number of the third is the company id of the second
CompanyA == CompanyRow("00126380", <<"7">>, <<"1", "0", "1">>, <<"2", "0", "2">>, "Samsung",
                       <<"1", "1", "0", "0">>, "Y")
CompanyB == CompanyRow("00164779", <<"8">>, <<"2", "0", "2">>, <<"3", "0", "3">>, "Hynix",
                       <<"2", "6", "1", "1", "0">>, "K")
CompanyC == CompanyRow("00401731", <<"9">>, <<"8">>, <<"1", "0", "1">>, "Naver",
                       <<"9", "9">>, "E")

\* records of two companies: complete ones, and one that gives a new name only
CollectdartPool ==
    { [set |-> CompanyFields, val |-> CompanyA],
      [set |-> {"corp_code", "corp_name"},
       val |-> CompanyRow("00126380", None, None, None, "SamsungElec", None, "None")],
      [set |-> CompanyFields, val |-> CompanyB] }

FinanceRow(company_id, account_detail, thstrm_amount) ==
    [company_id |-> company_id, corp_code |-> "00126380", bsns_year |-> "2022",
     reprt_code |-> "11011", fs_div |-> "CFS", sj_div |-> "BS", sj_nm |-> "Jaemusangtaepyo",
     account_id |-> "ifrs-full_Equity", account_nm |-> "JabonChonggye",
     account_detail |-> account_detail, thstrm_amount |-> thstrm_amount]

FinanceFields == DOMAIN FinanceRow(None, "", None)

\* records of two line items that differ in one field of the key (account_detail), the
\* first with two amounts
CollectdartfinancePool ==
    { [set |-> FinanceFields, val |-> FinanceRow(<<"7">>, "-", Chars(0))],
      [set |-> FinanceFields \ {"account_detail"}, val |-> FinanceRow(<<"7">>, "None", Chars(1))],
      [set |-> FinanceFields, val |-> FinanceRow(<<"7">>, "-", Chars(5))] }

InitUpsert ==
    /\ collectdart = <<>>
    /\ collectdartfinance = <<>>
    /\ IdleSearch /\ IdleCalc /\ IdlePrep /\ IdleRec /\ IdleHttp /\ IdleScrapers

\* bulk_upsert_data_collectdart(data_list)
BulkUpsertDataCollectdart ==
    /\ \E data_list \in SeqsUpTo(CollectdartPool, MaxBatch) :
          /\ Len(BulkUpsert(collectdart, <<>>, data_list, CollectdartKey)) <= MaxStoreRows
          /\ collectdart' = BulkUpsert(collectdart, <<>>, data_list, CollectdartKey)
    /\ UNCHANGED collectdartfinance
    /\ UNCHANGED notDb

\* bulk_upsert_data_collectdartfinance(data_list)
BulkUpsertDataCollectdartfinance ==
    /\ \E data_list \in SeqsUpTo(CollectdartfinancePool, MaxBatch) :
          /\ Len(BulkUpsert(collectdartfinance, <<>>, data_list, CollectdartfinanceKey))
                <= MaxStoreRows
          /\ collectdartfinance' =
                BulkUpsert(collectdartfinance, <<>>, data_list, CollectdartfinanceKey)
    /\ UNCHANGED collectdart
    /\ UNCHANGED notDb

NextUpsert == BulkUpsertDataCollectdart \/ BulkUpsertDataCollectdartfinance

SpecUpsert == InitUpsert /\ [][NextUpsert]_vars

(***************************************************************************)
(* The lookup endpoints (api/dart_info_routers.py), query_collectdart and  *)
(* DartInfoPreprocessing                                                   *)
(***************************************************************************)
\* session.query(CollectDart).filter(column == value).first(): the index of the first
\* row whose column holds the value, 0 when there is none
FirstWhere(rows, column, value) ==
    IF \E i \in 1..Len(rows) : rows[i][column] = value
    THEN CHOOSE i \in 1..Len(rows) :
            /\ rows[i][column] = value
            /\ \A j \in 1..Len(rows) : rows[j][column] = value => i <= j
    ELSE 0

\* what a query_collectdart call answers: hit is the index of the row found (0: the call
\* returns None), ret the row, filter the column and the value the store was asked for
\* ("none" when no query was made)
Answer(rows, column, value) ==
    [exc |-> "",
     hit |-> FirstWhere(rows, column, value),
     ret |-> IF FirstWhere(rows, column, value) = 0 THEN None
             ELSE rows[FirstWhere(rows, column, value)],
     filter |-> [column |-> column, value |-> value]]

NoQuery(exc) ==
    [exc |-> exc, hit |-> 0, ret |-> None, filter |-> [column |-> "none", value |-> None]]

\* query_collectdart(biz_num, corp_num, company_id): the first truthy argument chooses
\* the column; the assert and int(company_id) are inside the try, whose handlers return None
QueryCollectdart(rows, biz_num, corp_num, company_id) ==
    IF Falsy(biz_num) /\ Falsy(corp_num) /\ Falsy(company_id) THEN NoQuery("")
    ELSE IF ~Falsy(biz_num) THEN Answer(rows, "bizr_no", biz_num)
    ELSE IF ~Falsy(corp_num) THEN Answer(rows, "jurir_no", corp_num)
    ELSE IF ~IsIntLiteral(company_id) THEN NoQuery("")
    ELSE Answer(rows, "company_id", StrOfInt(IntOf(company_id)))

\* x.lstrip('0')
RECURSIVE Lstrip0(_)
Lstrip0(s) == IF s # <<>> /\ s[1] = "0" THEN Lstrip0(Tail(s)) ELSE s

\* CodeClass rows of class 0042 as get_ksic returns them: code_value, code_desc
CodeClassRows ==
    << [code_value |-> <<"A", "0", "0", "0", "0", "0">>, code_desc |-> "NongeopImeopEoeop"],
       [code_value |-> <<"A", "0", "1", "1", "0", "0">>, code_desc |-> "JakmulJaebaeeop"],
       [code_value |-> <<"C", "2", "6", "1", "1", "0">>, code_desc |-> "BandocheJejoeop"] >>

\* _get_ksic: the columns code and industry_code are added, code_value is dropped
GetKsic(code_class) ==
    [columns |-> <<"code_desc", "code", "industry_code">>,
     rows |-> [i \in 1..Len(code_class) |->
                  [code_desc |-> code_class[i].code_desc,
                   code |-> <<code_class[i].code_value[1]>>,
                   industry_code |-> Lstrip0(Tail(code_class[i].code_value))]]]

\* _search_ksic(industry_code): result[0] of no matching row is an IndexError; otherwise
\* line 39 selects the column code_value, which _get_ksic dropped (KeyError); lines 40-43
\* are behind it: result[0], i.e. the cells of the first matching row in column order,
\* followed by the description of the section
SearchKsic(ksic_df, industry_code) ==
    IF ~\E i \in 1..Len(ksic_df.rows) : ksic_df.rows[i].industry_code = industry_code
    THEN Raise("IndexError")
    ELSE IF ~\E i \in 1..Len(ksic_df.columns) : ksic_df.columns[i] = "code_value"
    THEN Raise("KeyError")
    ELSE Ok([c \in 1..Len(ksic_df.columns) |->
                ksic_df.rows[FirstWhere(ksic_df.rows, "industry_code", industry_code)][ksic_df.columns[c]]]
            \o <<ksic_df.rows[FirstWhere(ksic_df.rows, "code_value",
                                         ksic_df.rows[FirstWhere(ksic_df.rows, "industry_code",
                                                                 industry_code)][ksic_df.columns[1]]
                                         \o <<"0", "0", "0", "0", "0">>)].code_desc>>)

\* DartInfoPreprocessing.preprocess(data): _search_ksic is its first call, the record
\* is built from its answer (`ksic[0] if ksic else None`, ...) and the fields of data
InfoPreprocess(ksic_df, data) ==
    IF SearchKsic(ksic_df, data.induty_code).exc # ""
    THEN Raise(SearchKsic(ksic_df, data.induty_code).exc)
    ELSE IF data.corp_cls \notin {"Y", "K", "N", "E"} THEN Raise("TypeError")
    ELSE Ok([id |-> data.company_id, biz_num |-> data.bizr_no,
             corporation_num |-> data.jurir_no, company_name |-> data.corp_name,
             business_condition_code |-> SearchKsic(ksic_df, data.induty_code).ret[1],
             business_condition_desc |-> SearchKsic(ksic_df, data.induty_code).ret[4],
             business_category_code |-> SearchKsic(ksic_df, data.induty_code).ret[1]
                                        \o SearchKsic(ksic_df, data.induty_code).ret[2],
             business_category_desc |-> SearchKsic(ksic_df, data.induty_code).ret[3]])

\* get_company_info(bizNum, corpNum, companyId): the first truthy argument chooses the
\* query; query_collectdart has no parameter corp_code (TypeError); with no truthy
\* argument `data` is unbound.  Any exception becomes an HTTPException (500).  ret is
\* the list the endpoint answers with: the company's record, or nothing for None.
GetCompanyInfo(rows, ksic_df, bizNum, corpNum, companyId) ==
    LET data == IF ~Falsy(bizNum) THEN QueryCollectdart(rows, bizNum, None, None)
                ELSE IF ~Falsy(corpNum) THEN NoQuery("TypeError")
                ELSE IF ~Falsy(companyId) THEN QueryCollectdart(rows, None, None, companyId)
                ELSE NoQuery("UnboundLocalError")
    IN  IF data.exc # "" THEN [status |-> 500, ret |-> <<>>, data |-> data]
        \* `if not data: return None`
        ELSE IF data.hit = 0 THEN [status |-> 200, ret |-> <<>>, data |-> data]
        ELSE IF InfoPreprocess(ksic_df, data.ret).exc # ""
        THEN [status |-> 500, ret |-> <<>>, data |-> data]
        ELSE [status |-> 200, ret |-> <<InfoPreprocess(ksic_df, data.ret).ret>>,
              data |-> data]

\* a lookup endpoint called with its path parameter: 400 for '', otherwise
\* get_company_info(param), the parameter passed by position, i.e. as bizNum; the
\* response lists the company, or nothing when there is none; an exception is a 500.
\* filter and found record the query made of the store and the index of the row it
\* answered (0: none).
Endpoint(endpoint, rows, ksic_df, param) ==
    IF param = EmptyStr
    THEN [endpoint |-> endpoint, param |-> param, status |-> 400, body |-> <<>>,
          filter |-> [column |-> "none", value |-> None], found |-> 0]
    ELSE LET info == GetCompanyInfo(rows, ksic_df, param, None, None)
         IN  [endpoint |-> endpoint, param |-> param, status |-> info.status,
              body |-> info.ret, filter |-> info.data.filter, found |-> info.data.hit]

(***************************************************************************)
(* Specification of the lookups: Init draws the rows of collect_dart, each *)
(* action serves one request                                               *)
(***************************************************************************)
\* tables of up to three companies with distinct corp_codes, in any order of insertion
LookupStores ==
    {q \in SeqsUpTo({CompanyA, CompanyB, CompanyC}, 3) :
        \A i \in 1..Len(q) : \A j \in 1..Len(q) : q[i] = q[j] => i = j}

\* path parameters: identifiers of the companies, an unknown one and ''
PathParams ==
    {EmptyStr, <<"1", "0", "1">>, <<"2", "0", "2">>, <<"3", "0", "3">>, <<"7">>, <<"8">>,
     <<"x">>}

InitLookup ==
    /\ collectdart \in LookupStores
    /\ collectdartfinance = <<>>
    /\ http = [endpoint |-> "none"]
    /\ IdleSearch /\ IdleCalc /\ IdlePrep /\ IdleRec /\ IdleScrapers

\* GET /dart/info/business/{bizNum}
GetCompanyInfoByBiznumEndpoint ==
    /\ \E bizNum \in PathParams :
          http' = Endpoint("business", collectdart, GetKsic(CodeClassRows), bizNum)
    /\ UNCHANGED collectdart
    /\ UNCHANGED notLookup

\* GET /dart/info/corporation/{corpNum}
GetCompanyInfoByCorpnumEndpoint ==
    /\ \E corpNum \in PathParams :
          http' = Endpoint("corporation", collectdart, GetKsic(CodeClassRows), corpNum)
    /\ UNCHANGED collectdart
    /\ UNCHANGED notLookup

\* GET /dart/info/company/{companyId}
GetCompanyInfoByCompanyidEndpoint ==
    /\ \E companyId \in PathParams :
          http' = Endpoint("company", collectdart, GetKsic(CodeClassRows), companyId)
    /\ UNCHANGED collectdart
    /\ UNCHANGED notLookup

NextLookup ==
    \/ GetCompanyInfoByBiznumEndpoint
    \/ GetCompanyInfoByCorpnumEndpoint
    \/ GetCompanyInfoByCompanyidEndpoint

SpecLookup == InitLookup /\ [][NextLookup]_vars

(***************************************************************************)
(* Specification of the industry-code table of DartInfoPreprocessing: Init *)
(* draws the CodeClass rows get_ksic answers with, the constructor builds  *)
(* _ksic_df, then _search_ksic or preprocess is called                     *)
(***************************************************************************)
MaxKsicRows == 2

\* CodeClass rows: the section A, classes of it, a class of another section
KsicPool ==
    {CodeClassRows[i] : i \in 1..Len(CodeClassRows)}
        \cup {[code_value |-> <<"A", "0", "1", "1", "1", "0">>, code_desc |-> "GoksikJakmul"]}

\* tables of distinct rows
KsicTables ==
    {q \in SeqsUpTo(KsicPool, MaxKsicRows) :
        \A i \in 1..Len(q) : \A j \in 1..Len(q) : q[i] = q[j] => i = j}

\* industry codes asked for: '011', '1100', '01100', '26110', '0111', '' and '99'
IndustryCodes ==
    { <<"0", "1", "1">>, <<"1", "1", "0", "0">>, <<"0", "1", "1", "0", "0">>,
      <<"2", "6", "1", "1", "0">>, <<"0", "1", "1", "1">>, EmptyStr, <<"9", "9">> }

InitKsic ==
    /\ ksic \in {[stage |-> "new", code_class |-> t] : t \in KsicTables}
    /\ IdleSearch /\ IdleCalc /\ IdlePrep /\ IdleRec /\ IdleDb /\ IdleHttp
    /\ IdleScrape /\ IdleFin /\ IdleFetch

\* DartInfoPreprocessing(): __init__ ends with self._get_ksic()
GetKsicCall ==
    /\ ksic.stage = "new"
    /\ ksic' = [stage |-> "loaded", code_class |-> ksic.code_class,
                _ksic_df |-> GetKsic(ksic.code_class)]
    /\ UNCHANGED notKsic

\* _search_ksic(industry_code)
SearchKsicCall ==
    /\ ksic.stage = "loaded"
    /\ \E industry_code \in IndustryCodes :
          ksic' = [stage |-> "_search_ksic", code_class |-> ksic.code_class,
                   _ksic_df |-> ksic._ksic_df, industry_code |-> industry_code,
                   out |-> SearchKsic(ksic._ksic_df, industry_code)]
    /\ UNCHANGED notKsic

\* preprocess(data)
InfoPreprocessCall ==
    /\ ksic.stage = "loaded"
    /\ \E data \in {CompanyA, CompanyB, CompanyC} :
          ksic' = [stage |-> "preprocess", code_class |-> ksic.code_class,
                   _ksic_df |-> ksic._ksic_df, industry_code |-> data.induty_code,
                   out |-> InfoPreprocess(ksic._ksic_df, data)]
    /\ UNCHANGED notKsic

NextKsic == GetKsicCall \/ SearchKsicCall \/ InfoPreprocessCall

SpecKsic == InitKsic /\ [][NextKsic]_vars

(***************************************************************************)
(* DartInfoScraper (scrapers/dart_info_scraper.py)                         *)
(***************************************************************************)
\* self.batch_size
batch_size == 100

\* what _get_company_info returns for a corp_code, given how its request ends: the
\* record built from a '000' answer; None for another status, for an answer the
\* pydantic model rejects (ValidationError) and for any other exception
GetCompanyInfoResult(corp_code, response) ==
    IF response = "000"
    THEN [is_none |-> FALSE, corp_code |-> corp_code]
    ELSE [is_none |-> TRUE, corp_code |-> 0]

\* the CollectDartPydantic record of a company info, all fields set
CollectDartRecord(company_info) ==
    [set |-> CompanyFields,
     val |-> CompanyRow(company_info.corp_code, None, None, None, "corp_name", None, "Y")]

\* bulk_upsert_data_collectdart(temp_list) on the rows of collect_dart
UpsertTempList(rows, temp_list) ==
    BulkUpsert(rows, <<>>, [i \in 1..Len(temp_list) |-> CollectDartRecord(temp_list[i])],
               CollectdartKey)

(***************************************************************************)
(* Specification of scrape_dart_info: Init draws the number of corp codes  *)
(* and how the request of each ends; the call gathers, then walks its loop *)
(***************************************************************************)
MaxCorpCodes == 201

\* how the request for the i-th corp code ends, per scenario: every request answers
\* '000'; or some answer another status, an invalid body, or fail
ResponseOf(scenario, i) ==
    IF scenario = "all found" THEN "000"
    ELSE IF i % 7 = 3 THEN "013"
    ELSE IF i % 11 = 5 THEN "invalid"
    ELSE IF i % 13 = 1 THEN "ClientError"
    ELSE "000"

InitScrape ==
    /\ scrape \in {[stage |-> "start", n |-> n, scenario |-> sc] :
                      n \in 0..MaxCorpCodes, sc \in {"all found", "some missing"}}
    /\ collectdart = <<>>
    /\ collectdartfinance = <<>>
    /\ IdleSearch /\ IdleCalc /\ IdlePrep /\ IdleRec /\ IdleHttp
    /\ IdleKsic /\ IdleFin /\ IdleFetch

\* line 102: gather answers in the order of the corp codes, the results that are None
\* are left out; line 104: temp_list = []
ScrapeGather ==
    /\ scrape.stage = "start"
    /\ scrape' = [stage |-> "loop", n |-> scrape.n, scenario |-> scrape.scenario,
                  company_info_list |->
                      SelectSeq([i \in 1..scrape.n |->
                                    GetCompanyInfoResult(i, ResponseOf(scrape.scenario, i))],
                                LAMBDA company_info : ~company_info.is_none),
                  i |-> 1, temp_list |-> <<>>, upserts |-> <<>>]
    /\ UNCHANGED collectdart
    /\ UNCHANGED notScrape

\* lines 105-111, one pass of the loop: the record is appended to temp_list; a
\* temp_list of batch_size records is saved and replaced by a new list
ScrapeLoopPass ==
    /\ scrape.stage = "loop"
    /\ scrape.i <= Len(scrape.company_info_list)
    /\ LET temp_list == Append(scrape.temp_list, scrape.company_info_list[scrape.i])
       IN  IF Len(temp_list) = batch_size
           THEN /\ collectdart' = UpsertTempList(collectdart, temp_list)
                /\ scrape' = [scrape EXCEPT !.i = @ + 1, !.temp_list = <<>>,
                                            !.upserts = Append(@, temp_list)]
           ELSE /\ UNCHANGED collectdart
                /\ scrape' = [scrape EXCEPT !.i = @ + 1, !.temp_list = temp_list]
    /\ UNCHANGED notScrape

\* faulty variant: the call returns after the loop, what is left in temp_list is not saved
ScrapeRestDropped ==
    /\ scrape.stage = "loop"
    /\ scrape.i > Len(scrape.company_info_list)
    /\ scrape' = [scrape EXCEPT !.stage = "returned"]
    /\ UNCHANGED collectdart
    /\ UNCHANGED notScrape

\* lines 113-115, after the loop: a temp_list that is not empty is saved; the call returns
ScrapeRest ==
    /\ scrape.stage = "loop"
    /\ scrape.i > Len(scrape.company_info_list)
    /\ IF scrape.temp_list # <<>>
       THEN /\ collectdart' = UpsertTempList(collectdart, scrape.temp_list)
            /\ scrape' = [scrape EXCEPT !.stage = "returned", !.temp_list = <<>>,
                                        !.upserts = Append(@, scrape.temp_list)]
       ELSE /\ UNCHANGED collectdart
            /\ scrape' = [scrape EXCEPT !.stage = "returned"]
    /\ UNCHANGED notScrape

NextScrape == ScrapeGather \/ ScrapeLoopPass \/ ScrapeRest

SpecScrape == InitScrape /\ [][NextScrape]_vars

(***************************************************************************)
(* DartFinanceScraper (scrapers/dart_finance_scraper.py)                   *)
(***************************************************************************)
\* self._reprt_code_ls
ReprtCodeLs == <<"11011", "11012", "11013", "11014">>

\* self._fs_div_ls
FsDivLs == <<"CFS", "OFS">>

\* self.target_year: last year from May on, the year before until April
TargetYear(now) == IF now.month > 4 THEN now.year - 1 ELSE now.year - 2

\* self._bsns_year_ls; bsns_year = 0 stands for the default None (`if bsns_year:`)
BsnsYearLs(bsns_year, now) ==
    IF bsns_year # 0 THEN <<StrOfInt(bsns_year)>>
    ELSE <<StrOfInt(TargetYear(now)), StrOfInt(TargetYear(now) - 3)>>

\* len(obj): an int has no len()
PyLen(obj) == IF obj.type = "int" THEN Raise("TypeError") ELSE Ok(Len(obj.val))

\* lines 125-133: one task per company, year, report code and fs_div, in loop order
CreateTasks(compids_and_corpcodes, bsns_year_ls) ==
    LET per_year == Len(ReprtCodeLs) * Len(FsDivLs)
        per_company == Len(bsns_year_ls) * per_year
    IN  [k \in 1..(Len(compids_and_corpcodes) * per_company) |->
            [company |-> compids_and_corpcodes[((k - 1) \div per_company) + 1],
             order_idx |-> (k - 1) \div per_company,
             bsns_year |-> bsns_year_ls[(((k - 1) % per_company) \div per_year) + 1],
             reprt_code |-> ReprtCodeLs[(((k - 1) % per_year) \div Len(FsDivLs)) + 1],
             fs_div |-> FsDivLs[((k - 1) % Len(FsDivLs)) + 1]]]

(***************************************************************************)
(* Specification of scrape_dart_finance: Init draws the companies the      *)
(* constructor read, its argument and the date; the call enters the        *)
(* scraper, runs the body of its `async with` and leaves it                *)
(***************************************************************************)
MaxCompanies == 2

\* (company_id, corp_code) pairs of collect_dart
CompidsAndCorpcodes ==
    {q \in SeqsUpTo({<<7, "00126380">>, <<8, "00164779">>, <<9, "00401731">>}, MaxCompanies) :
        \A i \in 1..Len(q) : \A j \in 1..Len(q) : q[i] = q[j] => i = j}

InitFinance ==
    /\ fin \in {[stage |-> "constructed", _compids_and_corpcodes |-> q,
                  _size |-> [type |-> "int", val |-> Len(q)],
                  _bsns_year_ls |-> BsnsYearLs(bsns_year, [year |-> 2024, month |-> month]),
                  session |-> "none", tasks |-> <<>>, exc |-> ""] :
                    q \in CompidsAndCorpcodes, bsns_year \in {0, 2021}, month \in {4, 5}}
    /\ IdleSearch /\ IdleCalc /\ IdlePrep /\ IdleRec /\ IdleDb /\ IdleHttp
    /\ IdleKsic /\ IdleScrape /\ IdleFetch

\* __aenter__: `async with self as scraper` opens the session
Aenter ==
    /\ fin.stage = "constructed"
    /\ fin' = [fin EXCEPT !.stage = "entered", !.session = "open"]
    /\ UNCHANGED notFin

\* lines 121-134, up to gather: the message of line 121 takes len(self._size); after it
\* the semaphore and the tasks are created
ScrapeDartFinanceBody ==
    /\ fin.stage = "entered"
    /\ IF PyLen(fin._size).exc # ""
       THEN fin' = [fin EXCEPT !.stage = "leaving", !.exc = PyLen(fin._size).exc]
       ELSE fin' = [fin EXCEPT !.stage = "gathering",
                               !.tasks = CreateTasks(fin._compids_and_corpcodes,
                                                     fin._bsns_year_ls)]
    /\ UNCHANGED notFin

\* __aexit__: the session is closed; an exception of the body goes on to the caller
Aexit ==
    /\ fin.stage = "leaving"
    /\ fin' = [fin EXCEPT !.stage = "exited", !.session = "closed"]
    /\ UNCHANGED notFin

NextFinance == Aenter \/ ScrapeDartFinanceBody \/ Aexit

SpecFinance == InitFinance /\ [][NextFinance]_vars

(***************************************************************************)
(* The tasks of the scrapers: _get_company_info (dart_info_scraper.py) and *)
(* _get_company_finance_info (dart_finance_scraper.py)                     *)
(***************************************************************************)
\* faulty variant: semaphores of one more
SemaphoreValueOneMore(kind) == IF kind = "info" THEN 6 ELSE 11

\* asyncio.Semaphore(5) of _get_company_info_list, asyncio.Semaphore(10) of
\* scrape_dart_finance: one semaphore, made before the tasks and passed to each
SemaphoreValue(kind) == IF kind = "info" THEN 5 ELSE 10

\* collections_db.check_if_exists_collectdartfinance: is there a row of the combination
CheckIfExistsCollectdartfinance(rows, corp_code, bsns_year, reprt_code, fs_div) ==
    \E i \in 1..Len(rows) :
        /\ rows[i].corp_code = corp_code
        /\ rows[i].bsns_year = bsns_year
        /\ rows[i].reprt_code = reprt_code
        /\ rows[i].fs_div = fs_div

\* collections_db.bulk_insert_if_not_exists: the records no row has the key of are added
BulkInsertIfNotExists(rows, data_list) ==
    rows \o SelectSeq(data_list,
                      LAMBDA data : ~\E i \in 1..Len(rows) :
                                        \A f \in CollectdartfinanceKey : rows[i][f] = data[f])

\* how a request may end.  info: a '000' answer, another status, an answer the pydantic
\* model rejects, a failing request.  finance: a '000' answer with line items, one whose
\* items are all rejected (each ValidationError is caught at line 99), one without a
\* list, another status, an HTTP status other than 200, a failing request
Responses(kind) ==
    IF kind = "info" THEN {"000", "013", "invalid", "ClientError"}
    ELSE {"000", "000 invalid", "000 no list", "013", "non-200", "ClientError"}

\* the exception the try body raises for a response ("": none)
RaisedBy(kind, response) ==
    IF response = "ClientError" THEN "ClientError"
    ELSE IF kind = "info" /\ response = "invalid" THEN "ValidationError"
    ELSE IF kind = "finance" /\ response = "000 no list" THEN "TypeError"
    ELSE ""

\* the except clauses of the try of a task, in order
ExceptClauses(kind) ==
    IF kind = "info" THEN <<"ValidationError", "Exception">> ELSE <<"ClientError", "Exception">>

\* an exception raised in the try body that no clause catches (every exception raised
\* there is a subclass of Exception): it would leave the task
Escaping(kind, exc) ==
    IF exc = "" \/ \E i \in 1..Len(ExceptClauses(kind)) :
                      ExceptClauses(kind)[i] \in {exc, "Exception"}
    THEN ""
    ELSE exc

\* the line item a '000' answer for the combination of the task followed carries
AnsweredItem == FinanceRow(<<"7">>, "-", Chars(0))

(***************************************************************************)
(* Specification of one gather.  Init is the state in which gather is      *)
(* awaited: the semaphore made, n tasks created (for the finance scraper   *)
(* as lines 124-133 create them).  One task is followed step by step, the  *)
(* other n - 1 are counted by their position.  A step of a task runs from  *)
(* one await to the next.                                                  *)
(***************************************************************************)
MaxTasks == 11

\* collect_dart_finance before the gather: empty, with a row of the combination of the
\* task followed, with a row of another combination
FetchStores ==
    { <<>>, <<FinanceRow(<<"7">>, "-", Chars(1))>>,
      <<[FinanceRow(<<"7">>, "-", Chars(1)) EXCEPT !.reprt_code = "11012"]>> }

InitGather ==
    /\ fetch \in {[stage |-> "gather", kind |-> kind, n |-> n, value |-> SemaphoreValue(kind),
                   task |-> [pc |-> "created", trace |-> <<>>, response |-> "none",
                             result |-> GetCompanyInfoResult(1, "none"), escaped |-> ""],
                   crowd |-> [waiting |-> n - 1, requesting |-> 0, delaying |-> 0, done |-> 0]] :
                     kind \in {"info", "finance"}, n \in 1..MaxTasks}
    /\ collectdartfinance \in FetchStores
    /\ fetch.kind = "info" => collectdartfinance = <<>>
    /\ collectdart = <<>>
    /\ IdleSearch /\ IdleCalc /\ IdlePrep /\ IdleRec /\ IdleHttp
    /\ IdleKsic /\ IdleScrape /\ IdleFin

\* faulty variant: the request is made whatever the existence check answers
TaskAcquireRequestAnyway ==
    /\ fetch.stage = "gather"
    /\ fetch.task.pc = "created"
    /\ fetch.value > 0
    /\ fetch' = [fetch EXCEPT
                    !.value = @ - 1,
                    !.task = IF fetch.kind = "info"
                             THEN [@ EXCEPT !.pc = "requesting", !.trace = <<"acquire", "request">>]
                             ELSE [@ EXCEPT !.pc = "requesting",
                                            !.trace = <<"acquire", "check", "request">>]]
    /\ UNCHANGED collectdartfinance
    /\ UNCHANGED notFetch

\* the task followed enters `async with semaphore` and runs to its first await.
\* info (lines 59-64): the request.  finance (lines 59-80): the existence check, which
\* may fail; for a combination present, or a failed check, the delay of `finally`;
\* otherwise the request
TaskAcquire ==
    /\ fetch.stage = "gather"
    /\ fetch.task.pc = "created"
    /\ fetch.value > 0
    /\ \E db_ok \in BOOLEAN :
          fetch' = [fetch EXCEPT
                       !.value = @ - 1,
                       !.task =
                           IF fetch.kind = "info"
                           THEN [@ EXCEPT !.pc = "requesting", !.trace = <<"acquire", "request">>]
                           ELSE IF ~db_ok
                           THEN [@ EXCEPT !.pc = "delaying", !.trace = <<"acquire", "check">>,
                                          !.response = "check failed",
                                          !.escaped = Escaping("finance", "SQLAlchemyError")]
                           ELSE IF CheckIfExistsCollectdartfinance(
                                       collectdartfinance, AnsweredItem.corp_code,
                                       AnsweredItem.bsns_year, AnsweredItem.reprt_code,
                                       AnsweredItem.fs_div)
                           THEN [@ EXCEPT !.pc = "delaying", !.trace = <<"acquire", "check">>,
                                          !.response = "skip"]
                           ELSE [@ EXCEPT !.pc = "requesting",
                                          !.trace = <<"acquire", "check", "request">>]]
    /\ UNCHANGED collectdartfinance
    /\ UNCHANGED notFetch

\* faulty variant: the delay at the end of the try body instead of `finally`: a task
\* whose request raised leaves the semaphore at once
TaskRespondNoFinally ==
    /\ fetch.stage = "gather"
    /\ fetch.task.pc = "requesting"
    /\ \E response \in Responses(fetch.kind) :
          /\ fetch' = [fetch EXCEPT
                          !.value = IF RaisedBy(fetch.kind, response) # "" THEN @ + 1 ELSE @,
                          !.task = [@ EXCEPT
                              !.pc = IF RaisedBy(fetch.kind, response) # ""
                                     THEN "done" ELSE "delaying",
                              !.trace = IF RaisedBy(fetch.kind, response) # ""
                                        THEN @ \o <<"release">> ELSE @,
                              !.response = response,
                              !.result = GetCompanyInfoResult(1, response)]]
          /\ UNCHANGED collectdartfinance
    /\ UNCHANGED notFetch

\* the request of the task followed ends; the task runs to the delay of `finally`.
\* info (lines 64-87): the result is built.  finance (lines 80-117): the line items of
\* a '000' answer are inserted when at least one is valid
TaskRespond ==
    /\ fetch.stage = "gather"
    /\ fetch.task.pc = "requesting"
    /\ \E response \in Responses(fetch.kind) :
          /\ fetch' = [fetch EXCEPT
                          !.task = [@ EXCEPT
                              !.pc = "delaying",
                              !.trace = IF fetch.kind = "finance" /\ response = "000"
                                        THEN @ \o <<"insert">> ELSE @,
                              !.response = response,
                              !.result = IF fetch.kind = "info"
                                         THEN GetCompanyInfoResult(1, response) ELSE @,
                              !.escaped = Escaping(fetch.kind, RaisedBy(fetch.kind, response))]]
          /\ collectdartfinance' =
                IF fetch.kind = "finance" /\ response = "000"
                THEN BulkInsertIfNotExists(collectdartfinance, <<AnsweredItem>>)
                ELSE collectdartfinance
    /\ UNCHANGED notFetch

\* the delay of the task followed is over: `finally` ends, `async with` releases the
\* semaphore, the task is done
TaskDelayEnds ==
    /\ fetch.stage = "gather"
    /\ fetch.task.pc = "delaying"
    /\ fetch' = [fetch EXCEPT !.value = @ + 1,
                              !.task = [@ EXCEPT !.pc = "done",
                                                 !.trace = @ \o <<"delay", "release">>]]
    /\ UNCHANGED collectdartfinance
    /\ UNCHANGED notFetch

\* another task enters `async with semaphore`: it goes on to its request, or (finance)
\* to its delay when its combination is present
CrowdAcquire ==
    /\ fetch.stage = "gather"
    /\ fetch.crowd.waiting > 0
    /\ fetch.value > 0
    /\ \E skip \in BOOLEAN :
          /\ skip => fetch.kind = "finance"
          /\ fetch' = [fetch EXCEPT
                          !.value = @ - 1,
                          !.crowd = [@ EXCEPT
                              !.waiting = @ - 1,
                              !.requesting = IF skip THEN @ ELSE @ + 1,
                              !.delaying = IF skip THEN @ + 1 ELSE @]]
    /\ UNCHANGED collectdartfinance
    /\ UNCHANGED notFetch

\* the request of another task ends
CrowdRespond ==
    /\ fetch.stage = "gather"
    /\ fetch.crowd.requesting > 0
    /\ fetch' = [fetch EXCEPT !.crowd = [@ EXCEPT !.requesting = @ - 1, !.delaying = @ + 1]]
    /\ UNCHANGED collectdartfinance
    /\ UNCHANGED notFetch

\* the delay of another task is over: it releases the semaphore and is done
CrowdDelayEnds ==
    /\ fetch.stage = "gather"
    /\ fetch.crowd.delaying > 0
    /\ fetch' = [fetch EXCEPT !.value = @ + 1,
                              !.crowd = [@ EXCEPT !.delaying = @ - 1, !.done = @ + 1]]
    /\ UNCHANGED collectdartfinance
    /\ UNCHANGED notFetch

\* asyncio.gather(*tasks) returns once every task is done
GatherReturns ==
    /\ fetch.stage = "gather"
    /\ fetch.task.pc = "done"
    /\ fetch.crowd.done = fetch.n - 1
    /\ fetch' = [fetch EXCEPT !.stage = "returned"]
    /\ UNCHANGED collectdartfinance
    /\ UNCHANGED notFetch

NextGather ==
    \/ TaskAcquire \/ TaskRespond \/ TaskDelayEnds
    \/ CrowdAcquire \/ CrowdRespond \/ CrowdDelayEnds
    \/ GatherReturns

SpecGather == InitGather /\ [][NextGather]_vars

\* the event loop runs every task that can go on, every request ends (with an answer
\* or an exception) and every sleep ends
SpecGatherFair ==
    /\ SpecGather
    /\ WF_vars(TaskAcquire) /\ WF_vars(TaskRespond) /\ WF_vars(TaskDelayEnds)
    /\ WF_vars(CrowdAcquire) /\ WF_vars(CrowdRespond) /\ WF_vars(CrowdDelayEnds)
    /\ WF_vars(GatherReturns)

(***************************************************************************)
(* Claims about the derivations and the normalizer                         *)
(***************************************************************************)
\* C1: each of the four derivations, called with '' as either argument, returns ''
\* and raises nothing to its caller.
C1_EmptyArgumentFailsClosed ==
    (calc.fn \in Derivations /\ (calc.a = EmptyStr \/ calc.b = EmptyStr))
        => (calc.out.exc = "" /\ calc.out.ret = EmptyStr)

\* C6: _preprocess_values returns '' for None and for '', returns every other string
\* without its last three characters (so '' for a string of one to three characters),
\* and never raises.
C6_NormalizeDropsLastThree ==
    calc.fn = "_preprocess_values" =>
        /\ calc.out.exc = ""
        /\ calc.a \in {None, EmptyStr} => calc.out.ret = EmptyStr
        /\ (IsStr(calc.a) /\ calc.a # EmptyStr) =>
              /\ Len(calc.out.ret) = (IF Len(calc.a) > 3 THEN Len(calc.a) - 3 ELSE 0)
              /\ \A i \in 1..Len(calc.out.ret) : calc.out.ret[i] = calc.a[i]

\* C6 witness: a string longer than three characters has been normalized to a non-empty one
C6_Witness ==
    /\ calc.fn = "_preprocess_values"
    /\ IsStr(calc.a) /\ Len(calc.a) = 7
    /\ calc.out.ret = <<calc.a[1], calc.a[2], calc.a[3], calc.a[4]>>

\* C11: _get_financial_dept_ratio with a non-empty debt_total and a capital_total whose
\* integer value is 0 returns '' and raises nothing.
C11_ZeroCapitalFailsClosed ==
    (/\ calc.fn = "_get_financial_dept_ratio"
     /\ IsIntLiteral(calc.a) /\ IntOf(calc.a) = 0
     /\ calc.b # EmptyStr)
        => (calc.out.exc = "" /\ calc.out.ret = EmptyStr)

\* C12: each of the four derivations, called with two non-empty strings of which at
\* least one is no decimal integer, returns '' and raises nothing.
C12_NonNumericFailsClosed ==
    (/\ calc.fn \in Derivations
     /\ IsStr(calc.a) /\ calc.a # EmptyStr
     /\ IsStr(calc.b) /\ calc.b # EmptyStr
     /\ \E x \in {calc.a, calc.b} :
            \/ Unsigned(x) = <<>>
            \/ \E i \in 1..Len(Unsigned(x)) : Unsigned(x)[i] \notin Digits)
        => (calc.out.exc = "" /\ calc.out.ret = EmptyStr)

\* C12 witness: a difference or the ratio was asked for with a non-numeric first operand
C12_Witness ==
    /\ calc.fn \in {"_get_net_working_capital", "_get_financial_dept_ratio"}
    /\ calc.a = <<"1", "a">>
    /\ calc.b \in {<<"-">>, <<"0">>}
    /\ calc.out = Ok(EmptyStr)

\* the position of the decimal point of a printed float
DotPos(s) == CHOOSE i \in 1..Len(s) : s[i] = "."

\* a printed decimal: optional '-', digits without a leading zero (or a single '0'), '.',
\* one to four decimals of which the last is no '0' unless it is the only one
IsDecimal4(s) ==
    /\ Len(Unsigned(s)) >= 3
    /\ Cardinality({i \in 1..Len(s) : s[i] = "."}) = 1
    /\ LET u == Unsigned(s)
           p == DotPos(u)
           whole == SubSeq(u, 1, p - 1)
           frac == SubSeq(u, p + 1, Len(u))
       IN  /\ whole # <<>> /\ \A i \in 1..Len(whole) : whole[i] \in Digits
           /\ Len(whole) > 1 => whole[1] # "0"
           /\ Len(frac) \in 1..4 /\ \A i \in 1..Len(frac) : frac[i] \in Digits
           /\ Len(frac) > 1 => frac[Len(frac)] # "0"

\* the value of a printed decimal in ten-thousandths
TenThousandths(s) ==
    LET u == Unsigned(s)
        p == DotPos(u)
        frac == SubSeq(u, p + 1, Len(u)) \o [i \in 1..(4 - (Len(u) - p)) |-> "0"]
        v == NatOf(SubSeq(u, 1, p - 1)) * 10000 + NatOf(frac)
    IN  IF s[1] = "-" THEN 0 - v ELSE v

Abs(x) == IF x < 0 THEN 0 - x ELSE x

\* C13: for integer strings with capital_total different from 0 the debt ratio is the
\* printed decimal nearest to debt_total / capital_total * 100 with at most four
\* decimals (debt the numerator, capital the denominator); '1000' and '500' give '50.0'.
C13_DebtRatioValue ==
    (/\ calc.fn = "_get_financial_dept_ratio"
     /\ IsIntLiteral(calc.a) /\ IsIntLiteral(calc.b)
     /\ IntOf(calc.a) # 0)
        => /\ calc.out.exc = ""
           /\ IsDecimal4(calc.out.ret)
           /\ 2 * Abs(TenThousandths(calc.out.ret) * IntOf(calc.a) - IntOf(calc.b) * 1000000)
                 <= Abs(IntOf(calc.a))
           /\ (calc.a = <<"1", "0", "0", "0">> /\ calc.b = <<"5", "0", "0">>)
                 => calc.out.ret = <<"5", "0", ".", "0">>

\* C13 witness: the documented example, capital_total '1000' and debt_total '500'
C13_Witness ==
    /\ calc.fn = "_get_financial_dept_ratio"
    /\ calc.a = <<"1", "0", "0", "0">> /\ calc.b = <<"5", "0", "0">>
    /\ calc.out = Ok(<<"5", "0", ".", "0">>)

\* str(int): optional '-', digits without a leading zero, no '-0'
IsPrintedInt(s) ==
    /\ IsIntLiteral(s)
    /\ Len(Unsigned(s)) > 1 => Unsigned(s)[1] # "0"
    /\ s[1] = "-" => Unsigned(s) # <<"0">>
    /\ s[1] # "+"

\* C14: for integer strings a and b each of the three difference derivations returns
\* the printed integer int(a) - int(b), negative results included; net worth of '900'
\* and '300' is '600'.
C14_DifferenceValue ==
    (/\ calc.fn \in {"_get_net_worth", "_get_quick_asset", "_get_net_working_capital"}
     /\ IsIntLiteral(calc.a) /\ IsIntLiteral(calc.b))
        => /\ calc.out.exc = ""
           /\ IsPrintedInt(calc.out.ret)
           /\ IntOf(calc.out.ret) = IntOf(calc.a) - IntOf(calc.b)
           /\ (calc.a = <<"9", "0", "0">> /\ calc.b = <<"3", "0", "0">>)
                 => calc.out.ret = <<"6", "0", "0">>

\* C14 witness: a difference below zero has been returned
C14_Witness ==
    /\ calc.fn = "_get_quick_asset"
    /\ calc.a = <<"3", "0", "0">> /\ calc.b = <<"9", "0", "0">>
    /\ calc.out = Ok(<<"-", "6", "0", "0">>)

(***************************************************************************)
(* Claims about _search_values                                             *)
(***************************************************************************)
\* the rows of the slice that pass the three filters for a key [account_nm, account_id, sj_div]
MatchIdx(k) ==
    {i \in 1..Len(df) :
        Cond1(df[i], k.account_nm, k.account_id) /\ Cond2(df[i]) /\ Cond3(df[i], k.sj_div)}

FirstIdx(k) == CHOOSE i \in MatchIdx(k) : \A j \in MatchIdx(k) : i <= j

Once(v) == PreprocessValues(v).ret

OnceRow(row) == <<Once(row.thstrm_amount), Once(row.frmtrm_amount), Once(row.bfefrmtrm_amount)>>

KeyOf(a) == [account_nm |-> a.account_nm, account_id |-> a.account_id, sj_div |-> a.sj_div]

\* the alternatives of a call in the claimed order: names, then ids, then divisions
ExpectedOrder(a) ==
    [i \in 1..Len(a.alt_account_nm_ls) |->
        [account_nm |-> a.alt_account_nm_ls[i], account_id |-> "None", sj_div |-> a.sj_div]]
    \o [i \in 1..Len(a.alt_account_id_ls) |->
        [account_nm |-> "None", account_id |-> a.alt_account_id_ls[i], sj_div |-> a.sj_div]]
    \o [i \in 1..Len(a.alt_sj_div_ls) |->
        [account_nm |-> a.account_nm, account_id |-> a.account_id, sj_div |-> a.alt_sj_div_ls[i]]]

\* the normalized current amount an alternative yields: '' when no row matches it
AltCurrent(k) == IF MatchIdx(k) = {} THEN EmptyStr ELSE Once(df[FirstIdx(k)].thstrm_amount)

\* C3: the primary key matches no row and the first alternative name matches a row with
\* a non-empty normalized current amount: the call returns that row's three amounts,
\* each normalized exactly once.
C3_FirstAliasNormalizedOnce ==
    (/\ sv.n >= 1
     /\ MatchIdx(KeyOf(sv.args)) = {}
     /\ sv.args.alt_account_nm_ls # <<>>
     /\ AltCurrent(ExpectedOrder(sv.args)[1]) # EmptyStr)
        => sv.out.ret = OnceRow(df[FirstIdx(ExpectedOrder(sv.args)[1])])

\* C4: the primary key matches no row and every alternative yields an empty normalized
\* current amount: the call returns ('', '', ''), whatever the other two amounts of the
\* rows the alternatives matched.
C4_ExhaustedReturnsEmptyTriple ==
    (/\ sv.n >= 1
     /\ MatchIdx(KeyOf(sv.args)) = {}
     /\ \A i \in 1..Len(ExpectedOrder(sv.args)) : AltCurrent(ExpectedOrder(sv.args)[i]) = EmptyStr)
        => sv.out.ret = <<EmptyStr, EmptyStr, EmptyStr>>

\* C7: when a row matches the primary key, the period pattern and the division, the call
\* returns the once-normalized amounts of the first such row in table order and makes
\* no recursive call, also when that row's normalized current amount is ''.
C7_PrimaryFirstRowWins ==
    (sv.n >= 1 /\ MatchIdx(KeyOf(sv.args)) # {})
        => /\ sv.out.ret = OnceRow(df[FirstIdx(KeyOf(sv.args))])
           /\ sv.out.consulted = <<>>

\* C7 witness: two rows match the primary key with different amounts, the first has an
\* empty normalized current amount, and alternatives were passed
C7_Witness ==
    /\ sv.n >= 1
    /\ MatchIdx(KeyOf(sv.args)) = {1, 2}
    /\ OnceRow(df[1]) # OnceRow(df[2])
    /\ Once(df[1].thstrm_amount) = EmptyStr
    /\ Once(df[2].thstrm_amount) # EmptyStr
    /\ Len(ExpectedOrder(sv.args)) >= 3
    /\ sv.out.ret = OnceRow(df[1])

\* C8: when the primary key matches no row, the alternatives are tried in the order
\* names, ids, divisions (each list in its own order) up to and including the first one
\* whose normalized current amount is non-empty; the amounts returned are those of that
\* alternative's row (they pass through the normalizer a second time on the way out).
C8_AlternativesInOrder ==
    (sv.n >= 1 /\ MatchIdx(KeyOf(sv.args)) = {}) =>
        LET exp == ExpectedOrder(sv.args)
            hit == {i \in 1..Len(exp) : AltCurrent(exp[i]) # EmptyStr}
            stop == IF hit = {} THEN Len(exp) ELSE CHOOSE i \in hit : \A h \in hit : i <= h
        IN  /\ Len(sv.out.consulted) = stop
            /\ \A i \in 1..stop : KeyOf(sv.out.consulted[i].args) = exp[i]
            /\ hit # {} =>
                  LET row == df[FirstIdx(exp[stop])]
                  IN  sv.out.ret = <<Once(Once(row.thstrm_amount)), Once(Once(row.frmtrm_amount)),
                                     Once(Once(row.bfefrmtrm_amount))>>

\* C8 witness: an alternative id delivers after an alternative name and an alternative id
\* delivered nothing, and a later alternative that would deliver is not tried
C8_Witness ==
    /\ sv.n >= 1
    /\ MatchIdx(KeyOf(sv.args)) = {}
    /\ Len(sv.out.consulted) = 3
    /\ sv.out.consulted[1].args.account_nm = "MaechulWonga"
    /\ sv.out.consulted[2].args.account_id = "dart_OtherCostOfSales"
    /\ sv.out.consulted[3].args.account_id = "dart_CostOfSalesGross"
    /\ sv.out.ret[1] # EmptyStr
    /\ Len(ExpectedOrder(sv.args)) = 4
    /\ AltCurrent(ExpectedOrder(sv.args)[4]) # EmptyStr

Characters == Digits \cup {"a", "-", "."}

\* C9: every call returns (raises nothing) a triple of strings, a candidate that matches
\* no row counts as no match, and the recursion is at most one level deep.
C9_ReturnsStringTriple ==
    sv.n >= 1 =>
        /\ sv.out.exc = ""
        /\ Len(sv.out.ret) = 3
        /\ \A i \in 1..3 :
              /\ IsStr(sv.out.ret[i])
              /\ \A j \in 1..Len(sv.out.ret[i]) : sv.out.ret[i][j] \in Characters
        /\ sv.out.depth <= 1
        /\ \A i \in 1..Len(sv.out.consulted) :
              MatchIdx(KeyOf(sv.out.consulted[i].args)) = {}
                  => sv.out.consulted[i].ret = <<EmptyStr, EmptyStr, EmptyStr>>

\* C9 witness: a recursive call found no row, a later one delivered, and a cell that is
\* no string (NaN) was among the amounts taken
C9_Witness ==
    /\ sv.n >= 1
    /\ sv.out.depth = 1
    /\ Len(sv.out.consulted) >= 2
    /\ MatchIdx(KeyOf(sv.out.consulted[1].args)) = {}
    /\ LET k == KeyOf(sv.out.consulted[Len(sv.out.consulted)].args)
       IN  MatchIdx(k) # {} /\ df[FirstIdx(k)].bfefrmtrm_amount \in {None, NaN}
    /\ sv.out.ret[1] # EmptyStr

PeriodLabel(s) ==
    /\ IsStr(s)
    /\ LET n == IF s # <<>> /\ s[Len(s)] = "\n" THEN Len(s) - 1 ELSE Len(s)
       IN  /\ n >= 5
           /\ s[n] = "G"
           /\ \E i \in 1..(n - 4) : \E d1 \in (i + 2)..(n - 2) : \E d2 \in d1..(n - 2) :
                 /\ s[i] = "J"
                 /\ \A x \in (i + 1)..(d1 - 1) : s[x] \in Whitespace
                 /\ \A x \in d1..d2 : s[x] \in Digits
                 /\ \A x \in (d2 + 1)..(n - 1) : s[x] \in Whitespace

\* the three filters together, for a key [account_nm, account_id, sj_div]
PassesAllFilters(row, k) ==
    /\ IF k.account_id \notin {"None", ""} THEN row.account_id = k.account_id
       ELSE k.account_nm # "None" /\ row.account_nm = k.account_nm
    /\ PeriodLabel(row.thstrm_nm)
    /\ k.sj_div # "None" /\ row.sj_div = k.sj_div

\* the keys a call may look rows up with: its own and those of its alternatives
KeysOf(a) == {KeyOf(a)} \cup {ExpectedOrder(a)[i] : i \in 1..Len(ExpectedOrder(a))}

\* C24: whenever the call returns an amount, the triple returned is the (normalized)
\* amounts of a row of the slice that passes all three filters at once for a key of the
\* call: the name (or id) filter, the period-label filter and the division filter; a row
\* failing one of them never contributes.
C24_ContributingRowPassesAllFilters ==
    (sv.n >= 1 /\ sv.out.ret # <<EmptyStr, EmptyStr, EmptyStr>>)
        => \E i \in 1..Len(df) : \E k \in KeysOf(sv.args) :
              /\ PassesAllFilters(df[i], k)
              /\ sv.out.ret \in {OnceRow(df[i]),
                                 <<Once(Once(df[i].thstrm_amount)), Once(Once(df[i].frmtrm_amount)),
                                   Once(Once(df[i].bfefrmtrm_amount))>>}

\* C24 witness: the first row of the slice has the name and the division asked for but a
\* period label that goes on after the period; the amounts returned are the second row's
C24_Witness ==
    /\ sv.n >= 1
    /\ Len(df) = 2
    /\ df[1].account_nm = sv.args.account_nm
    /\ df[1].sj_div = sv.args.sj_div
    /\ df[1].thstrm_nm = LabelQuarter
    /\ OnceRow(df[1]) # OnceRow(df[2])
    /\ sv.out.ret = OnceRow(df[2])
    /\ sv.out.ret[1] # EmptyStr

(***************************************************************************)
(* Claims about preprocess                                                 *)
(***************************************************************************)
RowsOfPair(i) ==
    SelectSeq(table, LAMBDA r : r.bsns_year = PairAt(table, i).year
                                /\ r.fs_div = PairAt(table, i).fs)

\* the company identity resolves and every pair of the loops has rows
Resolvable ==
    /\ companies = "found"
    /\ table # <<>>
    /\ \A i \in 1..NumPairs(table) : RowsOfPair(i) # <<>>

\* C2: for a table whose company identity resolves and whose every slice has rows,
\* preprocess returns a list of three records per slice, appended in the order current,
\* prior, two-periods-prior, with acct_dt year, year-1, year-2 and one company identity.
C2_ThreeRecordsPerSlice ==
    (pc = "done" /\ Resolvable) =>
        /\ ret.exc = ""
        /\ ret.ret # None
        /\ Len(ret.ret) = 3 * NumPairs(table)
        /\ \A i \in 1..NumPairs(table) : \A k \in 1..3 :
              LET r == ret.ret[3 * (i - 1) + k]
              IN  /\ r.acct_dt = StrOfInt(IntOf(PairAt(table, i).year) - (k - 1))
                  /\ r.company_id = table[1].company_id
                  /\ r.biz_num = QueryCompanies(companies).ret.biz_num
                  /\ r.corporation_num = QueryCompanies(companies).ret.corporation_num
                  /\ r.illu_id = QueryCompanies(companies).ret.illu_id

\* the documented end-to-end scenario: one slice with a '자본총계' row of 1000000 and a
\* '부채총계' row of 500000, the amounts of the two earlier periods absent
Scenario50 ==
    /\ companies = "found"
    /\ Len(table) = 2
    /\ \E i \in 1..2 : table[i].account_nm = "JabonChonggye" /\ table[i].thstrm_amount = Chars(0)
    /\ \E i \in 1..2 : table[i].account_nm = "BuchaeChonggye" /\ table[i].thstrm_amount = Chars(1)
    /\ \A i \in 1..2 : table[i].frmtrm_amount = None /\ table[i].bfefrmtrm_amount = None

\* C5: in that scenario preprocess does not return None: it returns the slice's three
\* records, the debt ratio of the current one '50.0' and of the two others ''.
C5_CurrentOnlySliceStillEmitted ==
    (pc = "done" /\ Scenario50) =>
        /\ ret.exc = ""
        /\ ret.ret # None
        /\ Len(ret.ret) = 3
        /\ ret.ret[1].financial_debt_ratio = <<"5", "0", ".", "0">>
        /\ ret.ret[2].financial_debt_ratio = EmptyStr
        /\ ret.ret[3].financial_debt_ratio = EmptyStr

\* C15: when the company-identity lookup fails (the directory answers nothing or
\* raises), preprocess returns None without raising, begins no pass of the loops and
\* returns no record.
C15_IdentityFailureReturnsNone ==
    (companies \in {"absent", "raises"} /\ pc # "start")
        => /\ pc = "done"
           /\ ret = Ok(None)
           /\ slice_i = 0
           /\ results = <<>>

\* C15 witness: the call has ended on a table of several slices whose company the
\* directory does not know
C15_Witness ==
    /\ pc = "done"
    /\ companies = "absent"
    /\ table # <<>> /\ NumPairs(table) >= 2
    /\ ret = Ok(None)

\* the pass of the loops about to be made raises
PassRaises ==
    SliceBody(table, locals.company_id, locals.ids, PairAt(table, slice_i).year,
              PairAt(table, slice_i).fs, locals, dflt_ls).exc # ""

\* C16: an exception raised in a pass of the loops ends the call: it returns None
\* (nothing is raised, no record is returned) and no later pass is made; a call never
\* returns the records of only some of its passes.
C16_ExceptionAbortsCall ==
    [][/\ (pc = "loop" /\ PassRaises)
            => (pc' = "done" /\ ret' = Ok(None) /\ slice_i' = slice_i)
       /\ pc' = "done"
            => (ret'.exc = "" /\ (ret'.ret = None \/ Len(ret'.ret) = 3 * NumPairs(table)))]_vars

\* C16 witness: a pass raised while later passes were still to be made, and the call
\* ended with None
C16_Witness ==
    /\ pc = "done"
    /\ companies = "found"
    /\ slice_i >= 1 /\ slice_i < NumPairs(table)
    /\ ret = Ok(None)

\* the (year, fs) pairs that occur in the rows of the table
PresentPairs == {[year |-> table[i].bsns_year, fs |-> table[i].fs_div] : i \in 1..Len(table)}

\* the years and the fs_div values of the table do not form a full cross product
NotCrossProduct ==
    /\ companies = "found"
    /\ table # <<>>
    /\ \E i \in 1..NumPairs(table) : RowsOfPair(i) = <<>>

\* C17: a table whose (year, fs_div) pairs do not form a full cross product is
\* processed: preprocess returns three records for each pair that occurs in the rows,
\* each pair once.
C17_PresentPairsProcessed ==
    (pc = "done" /\ NotCrossProduct) =>
        /\ ret.exc = ""
        /\ ret.ret # None
        /\ Len(ret.ret) = 3 * Cardinality(PresentPairs)
        /\ \A p \in PresentPairs :
              Cardinality({i \in 1..Len(ret.ret) :
                              /\ ret.ret[i].acct_dt = p.year
                              /\ ret.ret[i].financial_decide_code = p.fs}) = 1

C23_DerivedConsumesOwnSlice ==
    (pc = "loop" /\ RowsOfPair(slice_i) # <<>>)
        => /\ locals.inventories_asset # Unbound
           /\ locals.inventories_asset =
                  FoundMetrics(RowsOfPair(slice_i), dflt_ls).inventories_asset

(***************************************************************************)
(* Claims about the collection store                                       *)
(***************************************************************************)
\* no two rows of a table agree on every field of a key
OneRowPerKey(rows, key) ==
    \A i \in 1..Len(rows) : \A j \in 1..Len(rows) :
        (\A f \in key : rows[i][f] = rows[j][f]) => i = j

\* C19: after any sequence of bulk upserts from two empty tables, collect_dart holds at
\* most one row per corp_code and collect_dart_finance at most one row per value of
\* its ten-field key, also when a batch holds the same key more than once.
C19_OneRowPerNaturalKey ==
    /\ OneRowPerKey(collectdart, CollectdartKey)
    /\ OneRowPerKey(collectdartfinance, CollectdartfinanceKey)

\* the column of collect_dart each endpoint is documented to look its parameter up in
ColumnOf(endpoint) ==
    CASE endpoint = "business" -> "bizr_no"
      [] endpoint = "corporation" -> "jurir_no"
      [] endpoint = "company" -> "company_id"

\* C20: each lookup endpoint, given a numeric identifier, asks the store for the
\* company whose own column equals it: bizr_no for /business, jurir_no for
\* /corporation, company_id for /company.
C20_EndpointQueriesOwnIdentifier ==
    (http.endpoint # "none" /\ http.param # EmptyStr /\ IsIntLiteral(http.param))
        => /\ http.filter = [column |-> ColumnOf(http.endpoint), value |-> http.param]
           /\ http.found = FirstWhere(collectdart, ColumnOf(http.endpoint), http.param)

(***************************************************************************)
(* Claims about the industry-code table                                    *)
(***************************************************************************)
\* s without its trailing '0' characters
RECURSIVE Rstrip0(_)
Rstrip0(s) == IF s # <<>> /\ s[Len(s)] = "0" THEN Rstrip0(SubSeq(s, 1, Len(s) - 1)) ELSE s

\* the description of the section a code belongs to: the row <letter>00000
SectionDesc(code_class, letter) ==
    LET hits == {i \in 1..Len(code_class) :
                    code_class[i].code_value = <<letter, "0", "0", "0", "0", "0">>}
    IN  IF hits = {} THEN "None" ELSE code_class[CHOOSE i \in hits : TRUE].code_desc

\* C29: _get_ksic splits every code_value into its section letter (code) and the rest
\* without its trailing zeros (industry_code); leading zeros stay: 'A01100' gives code
\* 'A' and industry_code '011'.
C29_TrailingZerosRemoved ==
    ksic.stage # "new" =>
        \A i \in 1..Len(ksic.code_class) :
            /\ ksic._ksic_df.rows[i].code = <<ksic.code_class[i].code_value[1]>>
            /\ ksic._ksic_df.rows[i].industry_code = Rstrip0(Tail(ksic.code_class[i].code_value))

\* C22: _search_ksic called with an industry code the table holds returns the list
\* [code, industry_code, code_desc, representation_desc] of the first row with that
\* code: its section letter, the code asked for, its description and the description of
\* its section.
C22_SearchKsicReturnsFourFields ==
    (/\ ksic.stage = "_search_ksic"
     /\ \E i \in 1..Len(ksic._ksic_df.rows) :
           ksic._ksic_df.rows[i].industry_code = ksic.industry_code)
        => LET i == FirstWhere(ksic._ksic_df.rows, "industry_code", ksic.industry_code)
           IN  /\ ksic.out.exc = ""
               /\ ksic.out.ret = << ksic._ksic_df.rows[i].code, ksic.industry_code,
                                    ksic.code_class[i].code_desc,
                                    SectionDesc(ksic.code_class, ksic.code_class[i].code_value[1]) >>

\* C30: when no row of the table has the industry code of the company, preprocess
\* raises nothing and returns a record whose four business_* fields are None.
C30_UnknownCodeGivesNoneFields ==
    (/\ ksic.stage = "preprocess"
     /\ ~\E i \in 1..Len(ksic._ksic_df.rows) :
           ksic._ksic_df.rows[i].industry_code = ksic.industry_code)
        => /\ ksic.out.exc = ""
           /\ ksic.out.ret.business_condition_code = None
           /\ ksic.out.ret.business_condition_desc = None
           /\ ksic.out.ret.business_category_code = None
           /\ ksic.out.ret.business_category_desc = None

(***************************************************************************)
(* Claims about the scrapers                                               *)
(***************************************************************************)
RECURSIVE Flatten(_)
Flatten(seqs) == IF seqs = <<>> THEN <<>> ELSE Head(seqs) \o Flatten(Tail(seqs))

\* C21: when scrape_dart_info returns, the lists it passed to
\* bulk_upsert_data_collectdart hold, one after the other, exactly the company infos
\* collected (those that are not None), each once and in collection order; every list
\* but the last has exactly 100 records, the last from 1 to 100; no list is empty.
C21_BatchesOfHundred ==
    scrape.stage = "returned" =>
        /\ Flatten(scrape.upserts) =
              SelectSeq([i \in 1..scrape.n |-> [is_none |-> ResponseOf(scrape.scenario, i) # "000",
                                                corp_code |-> i]],
                        LAMBDA r : ~r.is_none)
        /\ \A j \in 1..Len(scrape.upserts) :
              /\ Len(scrape.upserts[j]) >= 1
              /\ Len(scrape.upserts[j]) <= 100
              /\ j < Len(scrape.upserts) => Len(scrape.upserts[j]) = 100

\* C21 witness: some results were None, a full batch and a rest were saved
C21_Witness ==
    /\ scrape.stage = "returned"
    /\ Len(scrape.company_info_list) < scrape.n
    /\ Len(scrape.upserts) = 2
    /\ Len(scrape.upserts[1]) = 100
    /\ Len(scrape.upserts[2]) \in 1..99
    /\ Len(collectdart) = Len(scrape.company_info_list)

\* C27: scrape_dart_finance ends without an exception, having created exactly one task
\* for every combination of a company, a business year of the list, one of the four
\* report codes and one of the two fs_div values, and with its HTTP session closed.
C27_OneTaskPerCombination ==
    fin.stage = "exited" =>
        /\ fin.exc = ""
        /\ fin.session = "closed"
        /\ Len(fin.tasks) = Len(fin._compids_and_corpcodes) * Len(fin._bsns_year_ls) * 4 * 2
        /\ \A c \in 1..Len(fin._compids_and_corpcodes) :
           \A y \in 1..Len(fin._bsns_year_ls) :
           \A r \in {"11011", "11012", "11013", "11014"} :
           \A f \in {"CFS", "OFS"} :
              Cardinality({k \in 1..Len(fin.tasks) :
                              /\ fin.tasks[k].company = fin._compids_and_corpcodes[c]
                              /\ fin.tasks[k].bsns_year = fin._bsns_year_ls[y]
                              /\ fin.tasks[k].reprt_code = r
                              /\ fin.tasks[k].fs_div = f}) = 1

\* the tasks that have entered `async with semaphore` and not left it
Holders ==
    (IF fetch.task.pc \in {"requesting", "delaying"} THEN 1 ELSE 0)
        + fetch.crowd.requesting + fetch.crowd.delaying

\* C25: at every moment at most 10 _get_company_finance_info tasks, and at most 5
\* _get_company_info tasks, are inside `async with semaphore`, however many tasks were
\* created and however their steps interleave.
C25_SemaphoreBound ==
    /\ fetch.kind = "finance" => Holders <= 10
    /\ fetch.kind = "info" => Holders <= 5

\* C25 witness: five info tasks hold the semaphore, the task followed and others wait,
\* and a task is done already
C25_Witness ==
    /\ fetch.kind = "info"
    /\ Holders = 5
    /\ fetch.task.pc = "created"
    /\ fetch.crowd.waiting >= 1
    /\ fetch.crowd.done >= 1

\* C26: a task that has acquired the semaphore eventually releases it, and releases it
\* only when its delay has run, however its request ended; no exception leaves a task;
\* all the tasks created eventually complete and the gather returns.
C26_EveryTaskReleasesAfterDelay ==
    /\ [][(fetch.task.pc # "done" /\ fetch'.task.pc = "done")
            => /\ fetch.task.pc = "delaying"
               /\ fetch'.task.trace = fetch.task.trace \o <<"delay", "release">>
               /\ fetch'.value = fetch.value + 1]_vars
    /\ [](fetch.task.escaped = "")
    /\ (fetch.task.pc \in {"requesting", "delaying"}) ~> (fetch.task.pc = "done")
    /\ (fetch.crowd.requesting + fetch.crowd.delaying > 0)
          ~> (fetch.crowd.requesting + fetch.crowd.delaying = 0)
    /\ <>(fetch.stage = "returned" /\ fetch.task.pc = "done" /\ fetch.crowd.done = fetch.n - 1)

\* C26 witness: more tasks than the semaphore admits, the request of the task followed
\* raised, the task ran its delay and released, and the gather returned
C26_Witness ==
    /\ fetch.stage = "returned"
    /\ fetch.kind = "info"
    /\ fetch.n >= 7
    /\ fetch.task.response = "ClientError"
    /\ fetch.task.trace = <<"acquire", "request", "delay", "release">>
    /\ fetch.task.result.is_none

\* the position of the first event e in a trace (0: none)
EventAt(trace, e) ==
    IF \E i \in 1..Len(trace) : trace[i] = e
    THEN CHOOSE i \in 1..Len(trace) : trace[i] = e /\ \A j \in 1..(i - 1) : trace[j] # e
    ELSE 0

\* C28: in _get_company_finance_info the existence check comes before the request; a
\* task whose combination is in the store makes no request and no insert: it only runs
\* its delay before it releases the semaphore.
C28_ExistingCombinationSkipped ==
    fetch.kind = "finance" =>
        /\ EventAt(fetch.task.trace, "request") # 0
              => /\ EventAt(fetch.task.trace, "check") # 0
                 /\ EventAt(fetch.task.trace, "check") < EventAt(fetch.task.trace, "request")
        /\ (/\ fetch.task.response # "check failed"
            /\ EventAt(fetch.task.trace, "check") # 0
            /\ EventAt(fetch.task.trace, "insert") = 0
            /\ \E i \in 1..Len(collectdartfinance) :
                  /\ collectdartfinance[i].corp_code = "00126380"
                  /\ collectdartfinance[i].bsns_year = "2022"
                  /\ collectdartfinance[i].reprt_code = "11011"
                  /\ collectdartfinance[i].fs_div = "CFS")
              => /\ EventAt(fetch.task.trace, "request") = 0
                 /\ fetch.task.pc = "delaying" => fetch.task.trace = <<"acquire", "check">>
                 /\ fetch.task.pc = "done"
                       => fetch.task.trace = <<"acquire", "check", "delay", "release">>

\* C28 witness: the combination was in the store, the task is done without a request
C28_Witness ==
    /\ fetch.kind = "finance"
    /\ fetch.task.pc = "done"
    /\ fetch.task.response = "skip"
    /\ fetch.task.trace = <<"acquire", "check", "delay", "release">>
    /\ Len(collectdartfinance) = 1

====
